---- MODULE Spec2Model ----
(***************************************************************************)
(* Registration flow of the olympiad bot (src/handlers.py) and its record  *)
(* store (src/db.py).                                                      *)
(*                                                                         *)
(* A text is a sequence of Unicode code points, so that stripping,         *)
(* validation, transliteration and base64 encoding are computed the way    *)
(* the Python code computes them.  An optional value (a nullable column,   *)
(* a possibly absent result) is <<>> for None and <<v>> for the value v.   *)
(***************************************************************************)
EXTENDS Integers, Sequences, FiniteSets, Bags, TLC

\* ------------------------------------------------------------------------
\* Program constants (src/config.py)
\* ------------------------------------------------------------------------
MIN_GRADE == 1
MAX_GRADE == 8
OLYMPIAD_PRICE == 50000
\* PAYME_MERCHANT_ID comes from the environment; "M1" is the sample value.
PAYME_MERCHANT_ID == <<77, 49>>

\* ------------------------------------------------------------------------
\* Bounds of the model
\* ------------------------------------------------------------------------
\* The users table holds at most MaxRows rows: an event that would insert
\* another row is not taken.
MaxRows == 2

None == <<>>
Some(v) == <<v>>

\* ------------------------------------------------------------------------
\* Texts of src/texts.py that the handlers compare inputs against
\* ------------------------------------------------------------------------
\* TEXTS["cancel"]["ru"] = "? ??????" (8 characters)
CANCEL_TEXT_RU == <<10060, 32, 1054, 1090, 1084, 1077, 1085, 1072>>
\* TEXTS["cancel"]["uz"] = "? Bekor qilish" (14 characters)
CANCEL_TEXT_UZ == <<10060, 32, 66, 101, 107, 111, 114, 32, 113, 105, 108, 105, 115, 104>>
\* TEXTS["cancel"]["en"] = "? Cancel" (8 characters)
CANCEL_TEXT_EN == <<10060, 32, 67, 97, 110, 99, 101, 108>>
\* TEXTS["register_another"]["ru"] = "? ???????????????? ??? ?????? ?????????" (39 characters)
REGISTER_ANOTHER_TEXT_RU ==
    <<10133, 32, 1047, 1072, 1088, 1077, 1075, 1080, 1089, 1090, 1088, 1080, 1088, 1086, 1074,
    1072, 1090, 1100, 32, 1077, 1097, 1105, 32, 1086, 1076, 1085, 1086, 1075, 1086, 32, 1091,
    1095, 1072, 1089, 1090, 1085, 1080, 1082, 1072>>
\* TEXTS["register_another"]["uz"] = "? Yana bir ishtirokchini ro'yxatdan o'tkazish" (45 characters)
REGISTER_ANOTHER_TEXT_UZ ==
    <<10133, 32, 89, 97, 110, 97, 32, 98, 105, 114, 32, 105, 115, 104, 116, 105, 114, 111, 107,
    99, 104, 105, 110, 105, 32, 114, 111, 39, 121, 120, 97, 116, 100, 97, 110, 32, 111, 39, 116,
    107, 97, 122, 105, 115, 104>>
\* TEXTS["register_another"]["en"] = "? Register another participant" (30 characters)
REGISTER_ANOTHER_TEXT_EN ==
    <<10133, 32, 82, 101, 103, 105, 115, 116, 101, 114, 32, 97, 110, 111, 116, 104, 101, 114,
    32, 112, 97, 114, 116, 105, 99, 105, 112, 97, 110, 116>>

\* ------------------------------------------------------------------------
\* Character classes and string primitives of Python
\* ------------------------------------------------------------------------
LOWER == 97..122
UPPER == 65..90
DIGITS == 48..57
\* str.isspace() / the regex class \s, code points below U+3001
WHITESPACE ==
    (9..13) \cup (28..32) \cup {133, 160, 5760} \cup (8192..8202)
    \cup {8232, 8233, 8239, 8287, 12288}

RECURSIVE lstrip(_)
lstrip(t) == IF t # <<>> /\ Head(t) \in WHITESPACE THEN lstrip(Tail(t)) ELSE t

RECURSIVE rstrip(_)
rstrip(t) ==
    IF t # <<>> /\ t[Len(t)] \in WHITESPACE THEN rstrip(SubSeq(t, 1, Len(t) - 1)) ELSE t

\* str.strip()
strip(t) == rstrip(lstrip(t))

RECURSIVE Keep(_, _)
\* the characters of t that are in class cls, in order
Keep(t, cls) ==
    IF t = <<>> THEN <<>>
    ELSE (IF Head(t) \in cls THEN <<Head(t)>> ELSE <<>>) \o Keep(Tail(t), cls)

AllIn(t, cls) == \A i \in 1..Len(t) : t[i] \in cls

RECURSIVE DecimalDigits(_)
DecimalDigits(n) ==
    IF n < 10 THEN <<48 + n>> ELSE DecimalDigits(n \div 10) \o <<48 + (n % 10)>>

\* str(n) / f"{n}" of an int
IntToText(n) == IF n < 0 THEN <<45>> \o DecimalDigits(0 - n) ELSE DecimalDigits(n)

\* The zeros of decimal digits (category Nd) that int() reads: ASCII,
\* Arabic-Indic, Extended Arabic-Indic, Devanagari and Fullwidth.
DECIMAL_ZEROS == {48, 1632, 1776, 2406, 65296}
DECIMALS == UNION {z..(z + 9) : z \in DECIMAL_ZEROS}
DecimalValue(c) == c - (CHOOSE z \in DECIMAL_ZEROS : c \in z..(z + 9))

RECURSIVE DigitsValue(_)
DigitsValue(t) ==
    IF t = <<>> THEN 0
    ELSE 10 * DigitsValue(SubSeq(t, 1, Len(t) - 1)) + DecimalValue(t[Len(t)])
\* int(t) of an already stripped text: an optional sign, then decimal digits
\* that single underscores may separate.  None stands for ValueError.
ParseInt(t) ==
    LET signed == t # <<>> /\ Head(t) \in {43, 45}
        body == IF signed THEN Tail(t) ELSE t
        wellFormed ==
            /\ body # <<>>
            /\ AllIn(body, DECIMALS \cup {95})
            /\ body[1] # 95 /\ body[Len(body)] # 95
            /\ \A i \in 1..(Len(body) - 1) : ~(body[i] = 95 /\ body[i + 1] = 95)
        magnitude == DigitsValue(Keep(body, DECIMALS))
    IN  IF ~wellFormed THEN None
        ELSE IF signed /\ Head(t) = 45 THEN Some(0 - magnitude) ELSE Some(magnitude)

\* ------------------------------------------------------------------------
\* Validation helpers (src/handlers.py)
\* ------------------------------------------------------------------------
\* The character class of validate_name's pattern as the source file holds
\* it: a-z, A-Z, U+011E, U+00B0-U+00D1, U+00AF, U+2018, U+00D2, U+203A,
\* U+0161, U+201C, U+2019, U+00B3, U+00B2, \s, "-" and "'".
NAME_CLASS ==
    LOWER \cup UPPER \cup {286} \cup (176..209) \cup {175, 8216, 210, 8250, 353, 8220, 8217,
    179, 178} \cup WHITESPACE \cup {45, 39}

validate_name(text) ==
    LET s == strip(text) IN s # <<>> /\ AllIn(s, NAME_CLASS)

EMAIL_LOCAL_CLASS == LOWER \cup UPPER \cup DIGITS \cup {46, 95, 37, 43, 45}
EMAIL_DOMAIN_CLASS == LOWER \cup UPPER \cup DIGITS \cup {46, 45}

\* ^[a-zA-Z0-9._%+-]+@[a-zA-Z0-9.-]+\.[a-zA-Z]{2,}$
validate_email(email) ==
    LET s == strip(email)
        n == Len(s)
    IN  \E i \in 2..n : \E j \in (i + 2)..(n - 2) :
            /\ s[i] = 64
            /\ AllIn(SubSeq(s, 1, i - 1), EMAIL_LOCAL_CLASS)
            /\ AllIn(SubSeq(s, i + 1, j - 1), EMAIL_DOMAIN_CLASS)
            /\ s[j] = 46
            /\ AllIn(SubSeq(s, j + 1, n), LOWER \cup UPPER)

\* a validate_grade whose lower bound is exclusive
validate_grade_above_minimum(text) ==
    LET parsed == ParseInt(strip(text))
    IN  IF parsed = None THEN <<FALSE, 0>>
        ELSE IF MIN_GRADE < parsed[1] /\ parsed[1] <= MAX_GRADE THEN <<TRUE, parsed[1]>>
        ELSE <<FALSE, 0>>

\* returns <<is_valid, grade>>
validate_grade(text) ==
    LET parsed == ParseInt(strip(text))
    IN  IF parsed = None THEN <<FALSE, 0>>
        ELSE IF MIN_GRADE <= parsed[1] /\ parsed[1] <= MAX_GRADE THEN <<TRUE, parsed[1]>>
        ELSE <<FALSE, 0>>

is_cancel_text(text) == strip(text) \in {CANCEL_TEXT_RU, CANCEL_TEXT_UZ, CANCEL_TEXT_EN}

\* the F.text.in_([...]) filter of process_register_another (no strip)
is_register_another_text(text) ==
    text \in {REGISTER_ANOTHER_TEXT_RU, REGISTER_ANOTHER_TEXT_UZ, REGISTER_ANOTHER_TEXT_EN}

\* ------------------------------------------------------------------------
\* Charge id (src/db.py)
\* ------------------------------------------------------------------------
CYRILLIC_TO_LATIN ==
    << <<1072, <<97>>>>, <<1073, <<98>>>>, <<1074, <<118>>>>, <<1075, <<103>>>>, <<1076,
    <<100>>>>, <<1077, <<101>>>>, <<1105, <<121, 111>>>>, <<1078, <<122, 104>>>>, <<1079,
    <<122>>>>, <<1080, <<105>>>>, <<1081, <<121>>>>, <<1082, <<107>>>>, <<1083, <<108>>>>,
    <<1084, <<109>>>>, <<1085, <<110>>>>, <<1086, <<111>>>>, <<1087, <<112>>>>, <<1088,
    <<114>>>>, <<1089, <<115>>>>, <<1090, <<116>>>>, <<1091, <<117>>>>, <<1092, <<102>>>>,
    <<1093, <<107, 104>>>>, <<1094, <<116, 115>>>>, <<1095, <<99, 104>>>>, <<1096, <<115,
    104>>>>, <<1097, <<115, 104, 99, 104>>>>, <<1098, <<>>>>, <<1099, <<121>>>>, <<1100, <<>>>>,
    <<1101, <<101>>>>, <<1102, <<121, 117>>>>, <<1103, <<121, 97>>>>, <<1118, <<111>>>>, <<1179,
    <<113>>>>, <<1171, <<103>>>>, <<1203, <<104>>>>, <<1040, <<65>>>>, <<1041, <<66>>>>, <<1042,
    <<86>>>>, <<1043, <<71>>>>, <<1044, <<68>>>>, <<1045, <<69>>>>, <<1025, <<89, 111>>>>,
    <<1046, <<90, 104>>>>, <<1047, <<90>>>>, <<1048, <<73>>>>, <<1049, <<89>>>>, <<1050,
    <<75>>>>, <<1051, <<76>>>>, <<1052, <<77>>>>, <<1053, <<78>>>>, <<1054, <<79>>>>, <<1055,
    <<80>>>>, <<1056, <<82>>>>, <<1057, <<83>>>>, <<1058, <<84>>>>, <<1059, <<85>>>>, <<1060,
    <<70>>>>, <<1061, <<75, 104>>>>, <<1062, <<84, 115>>>>, <<1063, <<67, 104>>>>, <<1064, <<83,
    104>>>>, <<1065, <<83, 104, 99, 104>>>>, <<1066, <<>>>>, <<1067, <<89>>>>, <<1068, <<>>>>,
    <<1069, <<69>>>>, <<1070, <<89, 117>>>>, <<1071, <<89, 97>>>>, <<1038, <<79>>>>, <<1178,
    <<81>>>>, <<1170, <<71>>>>, <<1202, <<72>>>> >>

\* cyrillic_to_latin.get(char, char)
cyrillic_to_latin_get(char) ==
    IF \E k \in 1..Len(CYRILLIC_TO_LATIN) : CYRILLIC_TO_LATIN[k][1] = char
    THEN (CHOOSE p \in {CYRILLIC_TO_LATIN[k] : k \in 1..Len(CYRILLIC_TO_LATIN)} : p[1] = char)[2]
    ELSE <<char>>

RECURSIVE TransliterateChars(_)
TransliterateChars(text) ==
    IF text = <<>> THEN <<>>
    ELSE cyrillic_to_latin_get(Head(text)) \o TransliterateChars(Tail(text))

\* a transliterate_for_order_id that cleans first and transliterates after
transliterate_for_order_id_cleaning_first(text) ==
    TransliterateChars(Keep(text, LOWER \cup UPPER \cup DIGITS))

transliterate_for_order_id(text) ==
    Keep(TransliterateChars(text), LOWER \cup UPPER \cup DIGITS)

\* a charge id that leaves the row id out
generate_charge_id_without_id(db_id, surname, name, grade) ==
    transliterate_for_order_id(surname) \o <<95>>
    \o transliterate_for_order_id(name) \o <<95>> \o IntToText(grade)

\* a charge id that starts with the grade where the row id belongs
generate_charge_id_grade_for_id(db_id, surname, name, grade) ==
    IntToText(grade) \o <<95>> \o transliterate_for_order_id(surname) \o <<95>>
    \o transliterate_for_order_id(name) \o <<95>> \o IntToText(grade)

generate_charge_id(db_id, surname, name, grade) ==
    IntToText(db_id) \o <<95>> \o transliterate_for_order_id(surname) \o <<95>>
    \o transliterate_for_order_id(name) \o <<95>> \o IntToText(grade)

\* ------------------------------------------------------------------------
\* Payme checkout link (src/handlers.py)
\* ------------------------------------------------------------------------
CHECKOUT_ORIGIN ==
    <<104, 116, 116, 112, 115, 58, 47, 47, 99, 104, 101, 99, 107, 111, 117, 116, 46, 112, 97,
    121, 99, 111, 109, 46, 117, 122, 47>>
B64_ALPHABET ==
    <<65, 66, 67, 68, 69, 70, 71, 72, 73, 74, 75, 76, 77, 78, 79, 80, 81, 82, 83, 84, 85, 86,
    87, 88, 89, 90, 97, 98, 99, 100, 101, 102, 103, 104, 105, 106, 107, 108, 109, 110, 111, 112,
    113, 114, 115, 116, 117, 118, 119, 120, 121, 122, 48, 49, 50, 51, 52, 53, 54, 55, 56, 57,
    43, 47>>

\* str.encode('utf-8') of one code point
Utf8Char(c) ==
    IF c < 128 THEN <<c>>
    ELSE IF c < 2048 THEN <<192 + (c \div 64), 128 + (c % 64)>>
    ELSE IF c < 65536 THEN <<224 + (c \div 4096), 128 + ((c \div 64) % 64), 128 + (c % 64)>>
    ELSE <<240 + (c \div 262144), 128 + ((c \div 4096) % 64), 128 + ((c \div 64) % 64),
           128 + (c % 64)>>

RECURSIVE Utf8(_)
Utf8(text) == IF text = <<>> THEN <<>> ELSE Utf8Char(Head(text)) \o Utf8(Tail(text))

RECURSIVE b64encode(_)
\* base64.b64encode of a byte sequence, with "=" padding
b64encode(bytes) ==
    IF bytes = <<>> THEN <<>>
    ELSE LET n == Len(bytes)
             b1 == bytes[1]
             b2 == IF n >= 2 THEN bytes[2] ELSE 0
             b3 == IF n >= 3 THEN bytes[3] ELSE 0
             c1 == B64_ALPHABET[(b1 \div 4) + 1]
             c2 == B64_ALPHABET[((b1 % 4) * 16 + (b2 \div 16)) + 1]
             c3 == IF n >= 2 THEN B64_ALPHABET[((b2 % 16) * 4 + (b3 \div 64)) + 1] ELSE 61
             c4 == IF n >= 3 THEN B64_ALPHABET[(b3 % 64) + 1] ELSE 61
         IN  <<c1, c2, c3, c4>> \o (IF n > 3 THEN b64encode(SubSeq(bytes, 4, n)) ELSE <<>>)

\* f"m={merchant_id};ac.charge_id={charge_id};a={amount};l=ru"
payme_params(merchant_id, amount, charge_id) ==
    <<109, 61>> \o merchant_id
    \o <<59, 97, 99, 46, 99, 104, 97, 114, 103, 101, 95, 105, 100, 61>> \o charge_id
    \o <<59, 97, 61>> \o IntToText(amount) \o <<59, 108, 61, 114, 117>>

\* a generate_payme_link that writes the amount in sum, not in tiyin
generate_payme_link_in_sum(merchant_id, amount, charge_id) ==
    CHECKOUT_ORIGIN \o b64encode(Utf8(payme_params(merchant_id, amount \div 100, charge_id)))

generate_payme_link(merchant_id, amount, charge_id) ==
    CHECKOUT_ORIGIN \o b64encode(Utf8(payme_params(merchant_id, amount, charge_id)))

\* str(text).replace("&", "&amp;").replace("<", "&lt;").replace(">", "&gt;")
RECURSIVE escape_html(_)
escape_html(text) ==
    IF text = <<>> THEN <<>>
    ELSE (CASE Head(text) = 38 -> <<38, 97, 109, 112, 59>>
            [] Head(text) = 60 -> <<38, 108, 116, 59>>
            [] Head(text) = 62 -> <<38, 103, 116, 59>>
            [] OTHER -> <<Head(text)>>) \o escape_html(Tail(text))

\* "N/A"
NOT_AVAILABLE == <<78, 47, 65>>

\* ------------------------------------------------------------------------
\* Sample inputs
\* ------------------------------------------------------------------------
\* Telegram accounts that talk to the bot
Accounts == {1001}

\* Text messages users send.  None of them is a command (starts with "/"):
\* the commands are the events of cmd_start and cmd_cancel.
\*   "Li"  " Li"  "L"  "a@b.uz"  "8"  "9"  and the button texts
Texts ==
    { <<76, 105>>, <<32, 76, 105>>, <<76>>, <<97, 64, 98, 46, 117, 122>>, <<56>>, <<57>>,
      CANCEL_TEXT_RU, CANCEL_TEXT_UZ, CANCEL_TEXT_EN, REGISTER_ANOTHER_TEXT_EN }

\* phone numbers of shared contacts: "+998"
Phones == { <<43, 57, 57, 56>> }

\* file ids of uploaded photos: "f1"
FileIds == { <<102, 49>> }

\* the suffix of the callback data "lang_<code>" ("xx" is no language)
LangCodes == {"en", "xx"}

\* Inbound messages: kind is the content type, text its payload
TextMessage(t) == [kind |-> "text", text |-> t]
ContactMessage(p) == [kind |-> "contact", text |-> p]
PhotoMessage(f) == [kind |-> "photo", text |-> f]
OtherMessage == [kind |-> "other", text |-> <<>>]
Messages ==
    {TextMessage(t) : t \in Texts} \cup {ContactMessage(p) : p \in Phones}
    \cup {PhotoMessage(f) : f \in FileIds} \cup {OtherMessage}

\* Outcomes of the store and of the transport while a handler runs
CreateOutcomes == {"ok", "insert_failed", "charge_commit_failed"}
PhoneOutcomes == CreateOutcomes \cup {"send_failed"}
UpdateOutcomes == {"ok", "store_failed"}
ScreenshotOutcomes == UpdateOutcomes \cup {"send_failed", "prompt_failed"}

\* ------------------------------------------------------------------------
\* State
\* ------------------------------------------------------------------------
VARIABLES
    state,    \* FSM state of each account's session (RegState, or NoState)
    data,     \* FSM data of each account's session: field name -> value
    users,    \* the users table, in insertion order: row i has id i
    out,      \* the messages the last handler sent, in order
    last,     \* the last handler run: account, handler, branch taken
    strace,   \* the FSM state the last handler found, then the states it set
    visited,  \* per account: the steps of the current registration attempt
    link,     \* per account: the checkout link presented in this attempt
    created,  \* per account: the ids of the rows inserted in this attempt
    tasks     \* the bag of the handlers that are suspended at an await

vars == <<state, data, users, out, last, strace, visited, link, created, tasks>>

NoState == "None"
RegState ==
    << "LanguageSelect", "ParentName", "Email", "Surname", "Name", "Grade", "School", "Phone",
       "Payment", "ScreenshotProof" >>
RegStates == {RegState[i] : i \in 1..Len(RegState)}

EmptyData == [k \in {} |-> <<>>]

\* data.get("language", "en")
Lang(d) == IF "language" \in DOMAIN d THEN d["language"] ELSE "en"

\* state.update_data(**fields)
update_data(d, fields) == fields @@ d

\* an outbound message: get_text(key, lang), how it is sent, and the
\* charge id or link it carries
Msg(key, lang) ==
    [key |-> key, lang |-> lang, via |-> "answer", charge_id |-> None, url |-> None]

Init ==
    /\ state = [a \in Accounts |-> NoState]
    /\ data = [a \in Accounts |-> EmptyData]
    /\ users = <<>>
    /\ out = <<>>
    /\ last = [account |-> 0, handler |-> "none", branch |-> "none"]
    /\ strace = <<>>
    /\ visited = [a \in Accounts |-> <<>>]
    /\ link = [a \in Accounts |-> None]
    /\ created = [a \in Accounts |-> {}]
    /\ tasks = EmptyBag

\* what every handler leaves behind: who ran, what was sent, and the FSM
\* state it found followed by the states it set
Observed(a, handler, branch, msgs, trace) ==
    /\ last' = [account |-> a, handler |-> handler, branch |-> branch]
    /\ out' = msgs
    /\ strace' = <<state[a]>> \o trace

\* a handler that runs from its filter to its end suspends nothing
Handled(a, handler, branch, msgs, trace) ==
    /\ Observed(a, handler, branch, msgs, trace)
    /\ tasks' = tasks

\* ------------------------------------------------------------------------
\* Record store (src/db.py)
\* ------------------------------------------------------------------------
User(id, telegram_id, parent_name, email, phone, surname, name, grade, school, language, payment_status, screenshot_file_id) ==
    [id |-> id, telegram_id |-> telegram_id, parent_name |-> parent_name, email |-> email,
     phone |-> phone, surname |-> surname, name |-> name, grade |-> grade, school |-> school,
     charge_id |-> None, language |-> language, payment_status |-> payment_status,
     screenshot_file_id |-> screenshot_file_id]

\* a create_user that returns the row with its charge_id but never commits
\* the charge_id to the table
create_user_charge_unsaved(table, telegram_id, parent_name, email, phone, surname, name, grade, school, language, payment_status, screenshot_file_id, outcome) ==
    LET id == Len(table) + 1
        user == User(id, telegram_id, parent_name, email, phone, surname, name, grade, school,
                     language, payment_status, screenshot_file_id)
        charged == [user EXCEPT !.charge_id = Some(generate_charge_id(id, surname, name, grade))]
    IN  CASE outcome = "insert_failed" -> [users |-> table, user |-> None]
          [] outcome = "charge_commit_failed" -> [users |-> Append(table, user), user |-> None]
          [] OTHER -> [users |-> Append(table, user), user |-> Some(charged)]

\* a create_user over a table whose telegram_id column is unique
create_user_unique_account(table, telegram_id, parent_name, email, phone, surname, name, grade, school, language, payment_status, screenshot_file_id, outcome) ==
    LET id == Len(table) + 1
        user == User(id, telegram_id, parent_name, email, phone, surname, name, grade, school,
                     language, payment_status, screenshot_file_id)
        charged == [user EXCEPT !.charge_id = Some(generate_charge_id(id, surname, name, grade))]
    IN  CASE outcome = "insert_failed" -> [users |-> table, user |-> None]
          [] \E i \in 1..Len(table) : table[i].telegram_id = telegram_id ->
                 [users |-> table, user |-> None]
          [] outcome = "charge_commit_failed" -> [users |-> Append(table, user), user |-> None]
          [] OTHER -> [users |-> Append(table, charged), user |-> Some(charged)]

\* create_user: insert and commit, then set charge_id from the new id and
\* commit again.  The result is the table and the returned row, or None
\* when a commit raised.
create_user(table, telegram_id, parent_name, email, phone, surname, name, grade, school, language, payment_status, screenshot_file_id, outcome) ==
    LET id == Len(table) + 1
        user == User(id, telegram_id, parent_name, email, phone, surname, name, grade, school,
                     language, payment_status, screenshot_file_id)
        charged == [user EXCEPT !.charge_id = Some(generate_charge_id(id, surname, name, grade))]
    IN  CASE outcome = "insert_failed" -> [users |-> table, user |-> None]
          [] outcome = "charge_commit_failed" -> [users |-> Append(table, user), user |-> None]
          [] OTHER -> [users |-> Append(table, charged), user |-> Some(charged)]

\* an update_registration_payment whose UPDATE has no WHERE clause
update_registration_payment_all_rows(table, registration_id, payment_status, screenshot_file_id, outcome) ==
    IF outcome = "store_failed" THEN [users |-> table, user |-> None, raised |-> TRUE]
    ELSE IF registration_id \notin 1..Len(table)
    THEN [users |-> table, user |-> None, raised |-> FALSE]
    ELSE LET marked == [i \in 1..Len(table) |->
                           [table[i] EXCEPT !.payment_status = payment_status,
                                            !.screenshot_file_id = screenshot_file_id]]
         IN  [users |-> marked, user |-> Some(marked[registration_id]), raised |-> FALSE]

\* an update_registration_payment that flips payment_status
update_registration_payment_toggling(table, registration_id, payment_status, screenshot_file_id, outcome) ==
    IF outcome = "store_failed" THEN [users |-> table, user |-> None, raised |-> TRUE]
    ELSE IF registration_id \notin 1..Len(table)
    THEN [users |-> table, user |-> None, raised |-> FALSE]
    ELSE LET old == table[registration_id]
             new == [old EXCEPT !.payment_status = ~old.payment_status,
                                !.screenshot_file_id = screenshot_file_id]
         IN  [users |-> [table EXCEPT ![registration_id] = new], user |-> Some(new),
              raised |-> FALSE]

\* an update_registration_payment that marks the newest row of the table
update_registration_payment_latest_row(table, registration_id, payment_status, screenshot_file_id, outcome) ==
    IF outcome = "store_failed" THEN [users |-> table, user |-> None, raised |-> TRUE]
    ELSE IF registration_id \notin 1..Len(table)
    THEN [users |-> table, user |-> None, raised |-> FALSE]
    ELSE LET old == table[Len(table)]
             new == [old EXCEPT !.payment_status = payment_status,
                                !.screenshot_file_id = screenshot_file_id]
         IN  [users |-> [table EXCEPT ![Len(table)] = new], user |-> Some(new),
              raised |-> FALSE]

\* an update_registration_payment that refuses a row that is paid already
update_registration_payment_once(table, registration_id, payment_status, screenshot_file_id, outcome) ==
    IF outcome = "store_failed" THEN [users |-> table, user |-> None, raised |-> TRUE]
    ELSE IF registration_id \notin 1..Len(table)
    THEN [users |-> table, user |-> None, raised |-> FALSE]
    ELSE LET old == table[registration_id]
             paid == [old EXCEPT !.payment_status = payment_status]
             new == IF screenshot_file_id # None /\ screenshot_file_id[1] # <<>>
                    THEN [paid EXCEPT !.screenshot_file_id = screenshot_file_id]
                    ELSE paid
         IN  IF old.payment_status THEN [users |-> table, user |-> None, raised |-> TRUE]
             ELSE [users |-> [table EXCEPT ![registration_id] = new], user |-> Some(new),
                   raised |-> FALSE]

\* an update_registration_payment that inserts the row it does not find
update_registration_payment_upserting(table, registration_id, payment_status, screenshot_file_id, outcome) ==
    IF outcome = "store_failed" THEN [users |-> table, user |-> None, raised |-> TRUE]
    ELSE IF registration_id \notin 1..Len(table)
    THEN LET row == User(Len(table) + 1, 0, <<>>, <<>>, <<>>, <<>>, <<>>, 0, <<>>, "en",
                         payment_status, screenshot_file_id)
         IN  [users |-> Append(table, row), user |-> Some(row), raised |-> FALSE]
    ELSE LET old == table[registration_id]
             paid == [old EXCEPT !.payment_status = payment_status]
             new == IF screenshot_file_id # None /\ screenshot_file_id[1] # <<>>
                    THEN [paid EXCEPT !.screenshot_file_id = screenshot_file_id]
                    ELSE paid
         IN  [users |-> [table EXCEPT ![registration_id] = new], user |-> Some(new),
              raised |-> FALSE]

\* an update_registration_payment that sets the status and drops the file id
update_registration_payment_status_only(table, registration_id, payment_status, screenshot_file_id, outcome) ==
    IF outcome = "store_failed" THEN [users |-> table, user |-> None, raised |-> TRUE]
    ELSE IF registration_id \notin 1..Len(table)
    THEN [users |-> table, user |-> None, raised |-> FALSE]
    ELSE LET old == table[registration_id]
             paid == [old EXCEPT !.payment_status = payment_status]
         IN  [users |-> [table EXCEPT ![registration_id] = paid], user |-> Some(paid),
              raised |-> FALSE]

\* update_registration_payment: the result is the table, the returned row
\* (None when there is no such row) and whether the call raised.
update_registration_payment(table, registration_id, payment_status, screenshot_file_id, outcome) ==
    IF outcome = "store_failed" THEN [users |-> table, user |-> None, raised |-> TRUE]
    ELSE IF registration_id \notin 1..Len(table)
    THEN [users |-> table, user |-> None, raised |-> FALSE]
    ELSE LET old == table[registration_id]
             paid == [old EXCEPT !.payment_status = payment_status]
             new == IF screenshot_file_id # None /\ screenshot_file_id[1] # <<>>
                    THEN [paid EXCEPT !.screenshot_file_id = screenshot_file_id]
                    ELSE paid
         IN  [users |-> [table EXCEPT ![registration_id] = new], user |-> Some(new),
              raised |-> FALSE]

\* ------------------------------------------------------------------------
\* Router filters (src/handlers.py), in registration order.  A message goes
\* to the first handler whose filter it passes.
\* ------------------------------------------------------------------------
\* F.text: a text message with a non-empty text that is not one of the
\* commands registered before the state handlers
F_text(m) == m.kind = "text" /\ m.text # <<>> /\ Head(m.text) # 47
F_contact(m) == m.kind = "contact"
F_photo(m) == m.kind = "photo"

TextStates == {"ParentName", "Email", "Surname", "Name", "Grade", "School"}

MatchesStateHandler(a, m) ==
    \/ state[a] \in TextStates /\ F_text(m)
    \/ state[a] = "Phone" /\ (F_contact(m) \/ F_text(m))
    \/ state[a] = "Payment" /\ F_photo(m)
    \/ state[a] = "ScreenshotProof"

MatchesRegisterAnother(a, m) ==
    ~MatchesStateHandler(a, m) /\ F_text(m) /\ is_register_another_text(m.text)

\* ------------------------------------------------------------------------
\* Command handlers
\* ------------------------------------------------------------------------
\* a cmd_start that keeps the language and the registration_id of the session
cmd_start_keeping_session(a) ==
    /\ state' = [state EXCEPT ![a] = "LanguageSelect"]
    /\ data' = [data EXCEPT ![a] =
           [k \in DOMAIN @ \cap {"language", "registration_id"} |-> @[k]]]
    /\ visited' = [visited EXCEPT ![a] = <<"LanguageSelect">>]
    /\ link' = [link EXCEPT ![a] = None]
    /\ created' = [created EXCEPT ![a] = {}]
    /\ Handled(a, "cmd_start", "ok", <<Msg("choose_language", "en")>>,
               <<NoState, "LanguageSelect">>)
    /\ UNCHANGED users

cmd_start(a) ==
    /\ state' = [state EXCEPT ![a] = "LanguageSelect"]
    /\ data' = [data EXCEPT ![a] = EmptyData]
    /\ visited' = [visited EXCEPT ![a] = <<"LanguageSelect">>]
    /\ link' = [link EXCEPT ![a] = None]
    /\ created' = [created EXCEPT ![a] = {}]
    /\ Handled(a, "cmd_start", "ok", <<Msg("choose_language", "en")>>,
               <<NoState, "LanguageSelect">>)
    /\ UNCHANGED users

\* a cancel that resets the FSM state and keeps the session data
Cancel_keeping_data(a, handler) ==
    /\ state' = [state EXCEPT ![a] = NoState]
    /\ visited' = [visited EXCEPT ![a] = <<"Cancelled">>]
    /\ link' = [link EXCEPT ![a] = None]
    /\ created' = [created EXCEPT ![a] = {}]
    /\ Handled(a, handler, "cancel", <<Msg("cancelled", Lang(data[a]))>>, <<NoState>>)
    /\ UNCHANGED <<users, data>>

\* the body of cmd_cancel, also run by the text handlers on the cancel button
Cancel(a, handler) ==
    /\ state' = [state EXCEPT ![a] = NoState]
    /\ data' = [data EXCEPT ![a] = EmptyData]
    /\ visited' = [visited EXCEPT ![a] = <<"Cancelled">>]
    /\ link' = [link EXCEPT ![a] = None]
    /\ created' = [created EXCEPT ![a] = {}]
    /\ Handled(a, handler, "cancel", <<Msg("cancelled", Lang(data[a]))>>, <<NoState>>)
    /\ UNCHANGED users

\* a cmd_cancel that also deletes the newest row of the table
cmd_cancel_deleting_row(a) ==
    /\ state' = [state EXCEPT ![a] = NoState]
    /\ data' = [data EXCEPT ![a] = EmptyData]
    /\ visited' = [visited EXCEPT ![a] = <<"Cancelled">>]
    /\ link' = [link EXCEPT ![a] = None]
    /\ created' = [created EXCEPT ![a] = {}]
    /\ Handled(a, "cmd_cancel", "cancel", <<Msg("cancelled", Lang(data[a]))>>, <<NoState>>)
    /\ users' = SubSeq(users, 1, Len(users) - 1)

cmd_cancel(a) == Cancel(a, "cmd_cancel")

\* ------------------------------------------------------------------------
\* Language selection
\* ------------------------------------------------------------------------
process_language_selection(a, code) ==
    /\ state[a] = "LanguageSelect"
    /\ LET lang_code == IF code \in {"ru", "uz", "en"} THEN code ELSE "en"
       IN  /\ data' = [data EXCEPT ![a] = update_data(@, [language |-> lang_code])]
           /\ Handled(a, "process_language_selection", "ok",
                      << [Msg("language_selected", lang_code) EXCEPT !.via = "edit_text"],
                         Msg("welcome", lang_code), Msg("ask_parent_name", lang_code) >>,
                      <<"ParentName">>)
    /\ state' = [state EXCEPT ![a] = "ParentName"]
    /\ visited' = [visited EXCEPT ![a] = Append(@, "ParentName")]
    /\ UNCHANGED <<users, link, created>>

\* ------------------------------------------------------------------------
\* Text-collecting steps
\* ------------------------------------------------------------------------
\* The shape the six text handlers share: the cancel button first, then the
\* step's validation, then update_data, the next prompt and set_state.
\* a text step that stores the input before it validates it
TextStep_storing_first(a, handler, input, valid, fields, error_key, next_key, next_state) ==
    IF is_cancel_text(input) THEN Cancel(a, handler)
    ELSE IF ~valid
    THEN /\ data' = [data EXCEPT ![a] = update_data(@, fields)]
         /\ Handled(a, handler, "invalid", <<Msg(error_key, Lang(data[a]))>>, <<>>)
         /\ UNCHANGED <<state, users, visited, link, created>>
    ELSE /\ data' = [data EXCEPT ![a] = update_data(@, fields)]
         /\ state' = [state EXCEPT ![a] = next_state]
         /\ visited' = [visited EXCEPT ![a] = Append(@, next_state)]
         /\ Handled(a, handler, "ok", <<Msg(next_key, Lang(data[a]))>>, <<next_state>>)
         /\ UNCHANGED <<users, link, created>>

TextStep(a, handler, input, valid, fields, error_key, next_key, next_state) ==
    IF is_cancel_text(input) THEN Cancel(a, handler)
    ELSE IF ~valid
    THEN /\ Handled(a, handler, "invalid", <<Msg(error_key, Lang(data[a]))>>, <<>>)
         /\ UNCHANGED <<state, data, users, visited, link, created>>
    ELSE /\ data' = [data EXCEPT ![a] = update_data(@, fields)]
         /\ state' = [state EXCEPT ![a] = next_state]
         /\ visited' = [visited EXCEPT ![a] = Append(@, next_state)]
         /\ Handled(a, handler, "ok", <<Msg(next_key, Lang(data[a]))>>, <<next_state>>)
         /\ UNCHANGED <<users, link, created>>

process_parent_name(a, m) ==
    /\ state[a] = "ParentName" /\ F_text(m)
    /\ LET parent_name == strip(m.text)
       IN  TextStep(a, "process_parent_name", parent_name,
                    ~(~validate_name(parent_name) \/ Len(parent_name) < 2),
                    [parent_name |-> parent_name], "invalid_parent_name", "ask_email", "Email")

\* a process_email that asks for the surname without storing the email
process_email_unstored(a, m) ==
    /\ state[a] = "Email" /\ F_text(m)
    /\ LET email == strip(m.text)
       IN  TextStep(a, "process_email", email, validate_email(email),
                    EmptyData, "invalid_email", "ask_surname", "Surname")

process_email(a, m) ==
    /\ state[a] = "Email" /\ F_text(m)
    /\ LET email == strip(m.text)
       IN  TextStep(a, "process_email", email, validate_email(email),
                    [email |-> email], "invalid_email", "ask_surname", "Surname")

process_surname(a, m) ==
    /\ state[a] = "Surname" /\ F_text(m)
    /\ LET surname == strip(m.text)
       IN  TextStep(a, "process_surname", surname,
                    ~(~validate_name(surname) \/ Len(surname) < 2),
                    [surname |-> surname], "invalid_surname", "ask_name", "Name")

process_name(a, m) ==
    /\ state[a] = "Name" /\ F_text(m)
    /\ LET name == strip(m.text)
       IN  TextStep(a, "process_name", name,
                    ~(~validate_name(name) \/ Len(name) < 2),
                    [name |-> name], "invalid_name", "ask_grade", "Grade")

\* a process_grade that takes every number
process_grade_unchecked(a, m) ==
    /\ state[a] = "Grade" /\ F_text(m)
    /\ LET grade_text == strip(m.text)
           parsed == ParseInt(grade_text)
       IN  TextStep(a, "process_grade", grade_text, parsed # None,
                    [grade |-> IF parsed = None THEN 0 ELSE parsed[1]], "invalid_grade",
                    "ask_school", "School")

process_grade(a, m) ==
    /\ state[a] = "Grade" /\ F_text(m)
    /\ LET grade_text == strip(m.text)
           checked == validate_grade(grade_text)
       IN  TextStep(a, "process_grade", grade_text, checked[1],
                    [grade |-> checked[2]], "invalid_grade", "ask_school", "School")

process_school(a, m) ==
    /\ state[a] = "School" /\ F_text(m)
    /\ LET school == strip(m.text)
       IN  TextStep(a, "process_school", school, ~(school = <<>> \/ Len(school) < 2),
                    [school |-> school], "invalid_school", "ask_phone", "Phone")

\* ------------------------------------------------------------------------
\* Phone step: the row is created here
\* ------------------------------------------------------------------------
\* the session fields create_user reads with data[...] (KeyError if absent)
RowFields == {"parent_name", "email", "surname", "name", "grade", "school"}

ErrorReply(lang) == <<Msg("error_occurred", lang)>>

\* The try block of process_phone_contact.  d is the session data the
\* handler read when it started and stored the session data in the storage
\* when create_user returns (d with the phone, when nothing ran in between).
PhoneContact(a, m, outcome, d, stored) ==
    LET lang == Lang(d)
        phone == m.text
    IN  IF ~(RowFields \subseteq DOMAIN d)
        THEN \* KeyError inside the try block
             /\ data' = [data EXCEPT ![a] = stored]
             /\ Observed(a, "process_phone_contact", "failed", ErrorReply(lang), <<>>)
             /\ UNCHANGED <<state, users, visited, link, created>>
        ELSE LET made == create_user(users, a, d["parent_name"], d["email"], phone,
                                     d["surname"], d["name"], d["grade"], d["school"],
                                     lang, FALSE, None, outcome)
             IN  /\ users' = made.users
                 /\ created' = [created EXCEPT ![a] =
                        @ \cup ((1..Len(made.users)) \ (1..Len(users)))]
                 /\ IF made.user = None
                    THEN \* create_user raised
                         /\ data' = [data EXCEPT ![a] = stored]
                         /\ Observed(a, "process_phone_contact", "store_failed",
                                    ErrorReply(lang), <<>>)
                         /\ UNCHANGED <<state, visited, link>>
                    ELSE LET user == made.user[1]
                             charge_id == user.charge_id[1]
                             payme_url == generate_payme_link(PAYME_MERCHANT_ID,
                                                              OLYMPIAD_PRICE, charge_id)
                         IN  /\ data' = [data EXCEPT ![a] =
                                    update_data(stored, [registration_id |-> user.id,
                                                         charge_id |-> charge_id])]
                             /\ IF outcome = "send_failed"
                                THEN \* message.answer raised: the state is not set
                                     /\ Observed(a, "process_phone_contact", "send_failed",
                                                ErrorReply(lang), <<>>)
                                     /\ UNCHANGED <<state, visited, link>>
                                ELSE /\ state' = [state EXCEPT ![a] = "Payment"]
                                     /\ visited' = [visited EXCEPT ![a] = Append(@, "Payment")]
                                     /\ link' = [link EXCEPT ![a] = Some(payme_url)]
                                     /\ Observed(a, "process_phone_contact", "ok",
                                                << [Msg("payment_info", lang)
                                                    EXCEPT !.url = Some(payme_url)] >>,
                                                <<"Payment">>)

process_phone_contact(a, m, outcome) ==
    /\ state[a] = "Phone" /\ F_contact(m)
    /\ Len(users) < MaxRows
    /\ PhoneContact(a, m, outcome, data[a], update_data(data[a], [phone |-> m.text]))
    /\ UNCHANGED tasks

\* a process_phone_text that takes the typed text as the phone number
process_phone_text_typed(a, m) ==
    /\ state[a] = "Phone" /\ F_text(m)
    /\ IF is_cancel_text(strip(m.text)) THEN Cancel(a, "process_phone_text")
       ELSE /\ data' = [data EXCEPT ![a] = update_data(@, [phone |-> strip(m.text)])]
            /\ Handled(a, "process_phone_text", "invalid",
                       <<Msg("invalid_phone", Lang(data[a]))>>, <<>>)
            /\ UNCHANGED <<state, users, visited, link, created>>

process_phone_text(a, m) ==
    /\ state[a] = "Phone" /\ F_text(m)
    /\ IF is_cancel_text(strip(m.text)) THEN Cancel(a, "process_phone_text")
       ELSE /\ Handled(a, "process_phone_text", "invalid",
                       <<Msg("invalid_phone", Lang(data[a]))>>, <<>>)
            /\ UNCHANGED <<state, data, users, visited, link, created>>

\* ------------------------------------------------------------------------
\* Payment and proof of payment
\* ------------------------------------------------------------------------
\* a process_payment_done that asks for the photograph and leaves the state
process_payment_done_staying(a) ==
    /\ state[a] = "Payment"
    /\ Handled(a, "process_payment_done", "ok", <<Msg("ask_screenshot", Lang(data[a]))>>, <<>>)
    /\ UNCHANGED <<state, data, users, visited, link, created>>

process_payment_done(a) ==
    /\ state[a] = "Payment"
    /\ state' = [state EXCEPT ![a] = "ScreenshotProof"]
    /\ visited' = [visited EXCEPT ![a] = Append(@, "ScreenshotProof")]
    /\ Handled(a, "process_payment_done", "ok", <<Msg("ask_screenshot", Lang(data[a]))>>,
               <<"ScreenshotProof">>)
    /\ UNCHANGED <<data, users, link, created>>

\* the session fields the completion summary reads with data[...]
SummaryFields == {"surname", "name", "grade", "school", "parent_name", "email", "phone"}

\* The body of process_screenshot.  d is the session data the handler read
\* when it started, before the session's FSM state when the try block runs
\* and trace the states the calling handler has already set
\* (process_payment_photo_direct sets ScreenshotProof and then runs it).
Screenshot(a, handler, file_id, outcome, before, trace, d) ==
    LET lang == Lang(d)
        has_id == "registration_id" \in DOMAIN d /\ d["registration_id"] # 0
        stored ==
            IF has_id
            THEN update_registration_payment(users, d["registration_id"], TRUE,
                                             Some(file_id),
                                             IF outcome = "store_failed" THEN outcome ELSE "ok")
            ELSE IF ~((RowFields \cup {"phone"}) \subseteq DOMAIN d)
            THEN [users |-> users, user |-> None, raised |-> TRUE]
            ELSE LET made ==
                         create_user(users, a, d["parent_name"], d["email"], d["phone"],
                                     d["surname"], d["name"], d["grade"], d["school"], lang,
                                     TRUE, Some(file_id),
                                     IF outcome = "store_failed" THEN "insert_failed" ELSE "ok")
                 IN  [users |-> made.users, user |-> made.user, raised |-> made.user = None]
        \* user.id on a missing row and data[...] on a missing field raise too
        raised == stored.raised \/ stored.user = None \/ ~(SummaryFields \subseteq DOMAIN d)
        charge == IF stored.user[1].charge_id # None /\ stored.user[1].charge_id[1] # <<>>
                  THEN escape_html(stored.user[1].charge_id[1])
                  ELSE NOT_AVAILABLE
        summary == [Msg("registration_complete", lang) EXCEPT !.charge_id = Some(charge)]
        failed(branch, msgs) ==
            /\ state' = [state EXCEPT ![a] = before]
            /\ visited' = [visited EXCEPT ![a] =
                   IF before = state[a] THEN @ ELSE Append(@, before)]
            /\ Observed(a, handler, branch, msgs, trace)
            /\ UNCHANGED <<data, link>>
    IN  /\ has_id \/ Len(users) < MaxRows
        /\ users' = stored.users
        /\ created' = [created EXCEPT ![a] = @ \cup ((1..Len(stored.users)) \ (1..Len(users)))]
        /\ IF raised THEN failed("store_failed", ErrorReply(lang))
           ELSE IF outcome = "send_failed" THEN failed("send_failed", ErrorReply(lang))
           ELSE IF outcome = "prompt_failed"
           THEN failed("prompt_failed", <<summary>> \o ErrorReply(lang))
           ELSE /\ state' = [state EXCEPT ![a] = NoState]
                /\ data' = [data EXCEPT ![a] = update_data(EmptyData, [language |-> lang])]
                /\ visited' = [visited EXCEPT ![a] =
                       (IF before = state[a] THEN @ ELSE Append(@, before)) \o <<"Complete">>]
                /\ Observed(a, handler, "ok",
                           <<summary, Msg("register_another_prompt", lang)>>,
                           trace \o <<NoState>>)
                /\ UNCHANGED link

\* a process_payment_photo_direct that does not set ScreenshotProof first
process_payment_photo_direct_unmoved(a, m, outcome) ==
    /\ state[a] = "Payment" /\ F_photo(m)
    /\ Screenshot(a, "process_payment_photo_direct", m.text, outcome, state[a], <<>>, data[a])
    /\ UNCHANGED tasks

\* a process_payment_photo_direct that hands no photograph on
process_payment_photo_direct_unrecorded(a, m, outcome) ==
    /\ state[a] = "Payment" /\ F_photo(m)
    /\ Screenshot(a, "process_payment_photo_direct", <<>>, outcome, "ScreenshotProof",
                  <<"ScreenshotProof">>, data[a])
    /\ UNCHANGED tasks

process_payment_photo_direct(a, m, outcome) ==
    /\ state[a] = "Payment" /\ F_photo(m)
    /\ Screenshot(a, "process_payment_photo_direct", m.text, outcome, "ScreenshotProof",
                  <<"ScreenshotProof">>, data[a])
    /\ UNCHANGED tasks

process_screenshot(a, m, outcome) ==
    /\ state[a] = "ScreenshotProof" /\ F_photo(m)
    /\ Screenshot(a, "process_screenshot", m.text, outcome, state[a], <<>>, data[a])
    /\ UNCHANGED tasks

\* a process_invalid_screenshot that sends the session back to Payment
process_invalid_screenshot_back_to_payment(a, m) ==
    /\ state[a] = "ScreenshotProof" /\ ~F_photo(m)
    /\ state' = [state EXCEPT ![a] = "Payment"]
    /\ Handled(a, "process_invalid_screenshot", "invalid",
               <<Msg("invalid_screenshot", Lang(data[a]))>>, <<"Payment">>)
    /\ UNCHANGED <<data, users, visited, link, created>>

process_invalid_screenshot(a, m) ==
    /\ state[a] = "ScreenshotProof" /\ ~F_photo(m)
    /\ Handled(a, "process_invalid_screenshot", "invalid",
               <<Msg("invalid_screenshot", Lang(data[a]))>>, <<>>)
    /\ UNCHANGED <<state, data, users, visited, link, created>>

\* ------------------------------------------------------------------------
\* Register another, and the fallback handler
\* ------------------------------------------------------------------------
\* a process_register_another that starts the next attempt in the default
\* language
process_register_another_default_language(a, m) ==
    /\ MatchesRegisterAnother(a, m)
    /\ data' = [data EXCEPT ![a] = update_data(EmptyData, [language |-> "en"])]
    /\ Handled(a, "process_register_another", "ok",
               <<Msg("welcome", "en"), Msg("ask_parent_name", "en")>>, <<NoState, "ParentName">>)
    /\ state' = [state EXCEPT ![a] = "ParentName"]
    /\ visited' = [visited EXCEPT ![a] = <<"ParentName">>]
    /\ link' = [link EXCEPT ![a] = None]
    /\ created' = [created EXCEPT ![a] = {}]
    /\ UNCHANGED users

process_register_another(a, m) ==
    /\ MatchesRegisterAnother(a, m)
    /\ LET lang == Lang(data[a])
       IN  /\ data' = [data EXCEPT ![a] = update_data(EmptyData, [language |-> lang])]
           /\ Handled(a, "process_register_another", "ok",
                      <<Msg("welcome", lang), Msg("ask_parent_name", lang)>>,
                      <<NoState, "ParentName">>)
    /\ state' = [state EXCEPT ![a] = "ParentName"]
    /\ visited' = [visited EXCEPT ![a] = <<"ParentName">>]
    /\ link' = [link EXCEPT ![a] = None]
    /\ created' = [created EXCEPT ![a] = {}]
    /\ UNCHANGED users

handle_unknown(a, m) ==
    /\ ~MatchesStateHandler(a, m) /\ ~MatchesRegisterAnother(a, m)
    /\ Handled(a, "handle_unknown", "ok",
               IF state[a] = NoState THEN <<Msg("help", Lang(data[a]))>> ELSE <<>>, <<>>)
    /\ UNCHANGED <<state, data, users, visited, link, created>>

\* ------------------------------------------------------------------------
\* The router: one inbound event of account a is handled from the filter
\* to the end of its handler
\* ------------------------------------------------------------------------
HandleEvent(a, messages, codes, phone_outcomes, screenshot_outcomes) ==
    \/ cmd_start(a)
    \/ cmd_cancel(a)
    \/ \E code \in codes : process_language_selection(a, code)
    \/ \E m \in messages : process_parent_name(a, m)
    \/ \E m \in messages : process_email(a, m)
    \/ \E m \in messages : process_surname(a, m)
    \/ \E m \in messages : process_name(a, m)
    \/ \E m \in messages : process_grade(a, m)
    \/ \E m \in messages : process_school(a, m)
    \/ \E m \in messages, outcome \in phone_outcomes : process_phone_contact(a, m, outcome)
    \/ \E m \in messages : process_phone_text(a, m)
    \/ process_payment_done(a)
    \/ \E m \in messages, outcome \in screenshot_outcomes :
           process_payment_photo_direct(a, m, outcome)
    \/ \E m \in messages, outcome \in screenshot_outcomes : process_screenshot(a, m, outcome)
    \/ \E m \in messages : process_invalid_screenshot(a, m)
    \/ \E m \in messages : process_register_another(a, m)
    \/ \E m \in messages : handle_unknown(a, m)

\* ------------------------------------------------------------------------
\* Specification: one inbound event is handled at a time
\* ------------------------------------------------------------------------
Next == \E a \in Accounts : HandleEvent(a, Messages, LangCodes, PhoneOutcomes, ScreenshotOutcomes)

Spec == Init /\ [][Next]_vars

\* ------------------------------------------------------------------------
\* Handlers that are suspended at an await (src/main.py)
\* ------------------------------------------------------------------------
\* The dispatcher is built with a storage and nothing else and polling is
\* started with its defaults: every update is handled in a task of its
\* own and no lock is taken per session.  A handler runs until it awaits the
\* store or the transport; then another update, of the same account too, can
\* be taken up.  process_phone_contact and process_screenshot are modelled
\* in two steps, up to the call of the store and from its return on; the
\* other handlers run from their filter to their end.  The rate limit of
\* ThrottlingMiddleware drops an event that comes less than half a second
\* after the account's last one, and lets every later one through, whether
\* or not a handler of that account is still suspended.
\* ------------------------------------------------------------------------
\* the texts and outcomes of the specification with suspended handlers
\* "Li"
FewTexts == { <<76, 105>> }

FewMessages ==
    {TextMessage(t) : t \in FewTexts} \cup {ContactMessage(p) : p \in Phones}
    \cup {PhotoMessage(f) : f \in FileIds}

\* the store fails before it writes, or not at all
FewPhoneOutcomes == {"ok", "insert_failed"}
FewScreenshotOutcomes == {"ok", "store_failed"}

\* at most MaxTasks handlers are suspended at a time
MaxTasks == 2

Task(a, handler, m, d) == [account |-> a, handler |-> handler, message |-> m, data |-> d]

Suspended(a) == {t \in BagToSet(tasks) : t.account = a}

\* process_phone_contact up to the call of create_user: the filter, the
\* read of the session data, the phone stored in the session
begin_process_phone_contact(a, m) ==
    /\ state[a] = "Phone" /\ F_contact(m)
    /\ BagCardinality(tasks) < MaxTasks
    /\ tasks' = tasks (+) SetToBag({Task(a, "process_phone_contact", m, data[a])})
    /\ data' = [data EXCEPT ![a] = update_data(@, [phone |-> m.text])]
    /\ UNCHANGED <<state, users, out, last, strace, visited, link, created>>

\* process_phone_contact from the call of create_user to its end
end_process_phone_contact(t, outcome) ==
    /\ BagIn(t, tasks) /\ t.handler = "process_phone_contact"
    /\ Len(users) < MaxRows
    /\ PhoneContact(t.account, t.message, outcome, t.data, data[t.account])
    /\ tasks' = tasks (-) SetToBag({t})

\* process_screenshot up to the call of the store: the filter and the read
\* of the session data
begin_process_screenshot(a, m) ==
    /\ state[a] = "ScreenshotProof" /\ F_photo(m)
    /\ BagCardinality(tasks) < MaxTasks
    /\ tasks' = tasks (+) SetToBag({Task(a, "process_screenshot", m, data[a])})
    /\ UNCHANGED <<state, data, users, out, last, strace, visited, link, created>>

\* process_screenshot from the call of the store to its end
end_process_screenshot(t, outcome) ==
    /\ BagIn(t, tasks) /\ t.handler = "process_screenshot"
    /\ Screenshot(t.account, "process_screenshot", t.message.text, outcome,
                  state[t.account], <<>>, t.data)
    /\ tasks' = tasks (-) SetToBag({t})

\* the steps of the two handlers that suspend, for account a
Suspending(a) ==
    \/ \E m \in FewMessages : begin_process_phone_contact(a, m)
    \/ \E t \in Suspended(a), outcome \in FewPhoneOutcomes : end_process_phone_contact(t, outcome)
    \/ \E m \in FewMessages : begin_process_screenshot(a, m)
    \/ \E t \in Suspended(a), outcome \in FewScreenshotOutcomes :
           end_process_screenshot(t, outcome)

\* ------------------------------------------------------------------------
\* Specification: two accounts, each in School with the fields of the
\* earlier steps collected, their events in any interleaving
\* ------------------------------------------------------------------------
Pair == {1001, 1002}

\* the session data in School after "Li", "a@b.uz", "Li", "Li", "8"
CollectedData ==
    [language |-> "en", parent_name |-> <<76, 105>>, email |-> <<97, 64, 98, 46, 117, 122>>,
     surname |-> <<76, 105>>, name |-> <<76, 105>>, grade |-> 8]

InitPair ==
    /\ state = [a \in Pair |-> "School"]
    /\ data = [a \in Pair |-> CollectedData]
    /\ users = <<>>
    /\ out = <<>>
    /\ last = [account |-> 0, handler |-> "none", branch |-> "none"]
    /\ strace = <<>>
    /\ visited = [a \in Pair |-> SubSeq(RegState, 1, 7)]
    /\ link = [a \in Pair |-> None]
    /\ created = [a \in Pair |-> {}]
    /\ tasks = EmptyBag

\* the events of account a from School on
PairStep(a) ==
    \/ \E m \in FewMessages : process_school(a, m)
    \/ process_payment_done(a)
    \/ \E m \in FewMessages, outcome \in FewScreenshotOutcomes :
           process_payment_photo_direct(a, m, outcome)
    \/ Suspending(a)

NextPair == \E a \in Pair : PairStep(a)

SpecPair == InitPair /\ [][NextPair]_vars


\* ------------------------------------------------------------------------
\* The store by itself (src/db.py): DatabaseManager.create_user and
\* DatabaseManager.update_registration_payment called with arguments of
\* their signatures' types, also with ids the table does not hold.  `last`
\* tells which call ran and what it found.
\* ------------------------------------------------------------------------
\* registration_id arguments: the ids of the rows and one id beyond them
StoreIds == 1..(MaxRows + 1)

\* screenshot_file_id arguments: None, "" and two file ids
StoreFiles == {None, Some(<<>>), Some(<<102, 49>>), Some(<<102, 50>>)}

StoreOutcomes == {"ok", "store_failed"}

Called(a, call, found) ==
    /\ last' = [account |-> a, handler |-> call, branch |-> found]
    /\ out' = <<>>
    /\ strace' = <<>>
    /\ UNCHANGED <<state, data, visited, link, created, tasks>>

call_create_user(a, payment_status, screenshot_file_id, outcome) ==
    /\ Len(users) < MaxRows
    /\ LET r == create_user(users, a, CollectedData.parent_name, CollectedData.email,
                            <<57, 57, 56>>, CollectedData.surname, CollectedData.name,
                            CollectedData.grade, <<76, 105>>, CollectedData.language,
                            payment_status, screenshot_file_id, outcome)
       IN  /\ users' = r.users
           /\ Called(a, "create_user", IF r.user = None THEN "raised" ELSE "row")

call_update_registration_payment(registration_id, payment_status, screenshot_file_id, outcome) ==
    LET r == update_registration_payment(users, registration_id, payment_status,
                                         screenshot_file_id, outcome)
        found == IF r.raised THEN "raised"
                 ELSE IF r.user = None THEN "none"
                 ELSE IF \E i \in 1..Len(users) :
                             users[i].id = r.user[1].id /\ users[i].payment_status
                 THEN "paid_row"
                 ELSE "unpaid_row"
    IN  /\ users' = r.users
        /\ Called(0, "update_registration_payment", found)

NextStore ==
    \/ \E a \in Accounts, payment_status \in BOOLEAN, f \in {None, Some(<<102, 49>>)}, outcome \in CreateOutcomes : call_create_user(a, payment_status, f, outcome)
    \/ \E id \in StoreIds, payment_status \in BOOLEAN, f \in StoreFiles, outcome \in StoreOutcomes : call_update_registration_payment(id, payment_status, f, outcome)

SpecStore == Init /\ [][NextStore]_vars

\* ------------------------------------------------------------------------
\* The whole flow in Russian: sessions that choose "ru" at LanguageSelect
\* (a session that never chose runs on the default "en"), with one valid
\* text per step and a store and a transport that work.
\* ------------------------------------------------------------------------
RuCodes == {"ru"}

RuTexts == { <<76, 105>>, <<97, 64, 98, 46, 117, 122>>, <<56>>, REGISTER_ANOTHER_TEXT_RU }

RuMessages ==
    {TextMessage(t) : t \in RuTexts} \cup {ContactMessage(p) : p \in Phones}
    \cup {PhotoMessage(f) : f \in FileIds}

NextRu == \E a \in Accounts : HandleEvent(a, RuMessages, RuCodes, {"ok"}, {"ok"})

SpecRu == Init /\ [][NextRu]_vars

\* ------------------------------------------------------------------------
\* The Grade step by itself: two sessions that stand in Grade answer the
\* prompt with numerals around MIN_GRADE and MAX_GRADE and with texts that
\* int() takes or refuses.
\* ------------------------------------------------------------------------
\* "Li", "", " 8 ", "+8", "-1", "08", "0_8", "1_", "1.5", "12", U+0668
\* (Arabic-Indic eight) and U+2078 (superscript eight)
GradeTexts ==
    {IntToText(g) : g \in (MIN_GRADE - 1)..(MAX_GRADE + 1)}
    \cup { <<76, 105>>, <<>>, <<32, 56, 32>>, <<43, 56>>, <<45, 49>>, <<48, 56>>, <<48, 95, 56>>,
           <<49, 95>>, <<49, 46, 53>>, <<49, 50>>, <<1640>>, <<8312>> }

GradeMessages == {TextMessage(t) : t \in GradeTexts} \cup {PhotoMessage(f) : f \in FileIds}

NamedData == [f \in (DOMAIN CollectedData) \ {"grade"} |-> CollectedData[f]]

InitGrade ==
    /\ state = [a \in Pair |-> "Grade"]
    /\ data = [a \in Pair |-> NamedData]
    /\ users = <<>>
    /\ out = <<>>
    /\ last = [account |-> 0, handler |-> "none", branch |-> "none"]
    /\ strace = <<>>
    /\ visited = [a \in Pair |-> SubSeq(RegState, 1, 6)]
    /\ link = [a \in Pair |-> None]
    /\ created = [a \in Pair |-> {}]
    /\ tasks = EmptyBag

NextGrade ==
    \E a \in Pair :
        \/ \E m \in GradeMessages : process_grade(a, m)
        \/ \E m \in GradeMessages : handle_unknown(a, m)

SpecGrade == InitGrade /\ [][NextGrade]_vars

\* ------------------------------------------------------------------------
\* generate_charge_id by itself (src/db.py), applied to ids, names and
\* grades of the kinds create_user passes.  `out` holds the arguments of the
\* call and what it returned.
\* ------------------------------------------------------------------------
\* row ids: the first ids of a table and 42
ChargeRowIds == {1, 2, 42}

\* "Ivanov" and "Ivan" in Cyrillic, "Li", the hard sign, "O'Neil-2", "Otkir"
\* in Uzbek Cyrillic and "e" with an acute accent, as code points
ChargeNames ==
    { <<1048, 1074, 1072, 1085, 1086, 1074>>, <<1048, 1074, 1072, 1085>>, <<76, 105>>, <<1098>>,
      <<79, 39, 78, 101, 105, 108, 45, 50>>, <<1038, 1090, 1082, 1080, 1088>>, <<233>> }

ChargeGrades == {MIN_GRADE, 5, MAX_GRADE}

Returned(call, arguments, value) ==
    /\ last' = [account |-> 0, handler |-> call, branch |-> "returned"]
    /\ out' = <<arguments, value>>
    /\ strace' = <<>>
    /\ UNCHANGED <<state, data, users, visited, link, created, tasks>>

call_generate_charge_id(db_id, surname, name, grade) ==
    Returned("generate_charge_id", <<db_id, surname, name, grade>>,
             generate_charge_id(db_id, surname, name, grade))

NextPure ==
    \E db_id \in ChargeRowIds, surname \in ChargeNames, name \in ChargeNames, grade \in ChargeGrades : call_generate_charge_id(db_id, surname, name, grade)

SpecPure == Init /\ [][NextPure]_vars

\* ------------------------------------------------------------------------
\* process_phone_contact suspended at the await of message.answer
\* (src/handlers.py:739-743): the row is created and registration_id and
\* charge_id are in the session, the state is still Phone.  Until the
\* transport returns, further events of the account are handled (no lock
\* per session, see above); then the handler sets the state to Payment.
\* ------------------------------------------------------------------------
\* "Li", "a@b.uz", "8" and the register-another button
AnswerTexts == { <<76, 105>>, <<97, 64, 98, 46, 117, 122>>, <<56>>, REGISTER_ANOTHER_TEXT_EN }

AnswerMessages ==
    {TextMessage(t) : t \in AnswerTexts} \cup {ContactMessage(p) : p \in Phones}
    \cup {PhotoMessage(f) : f \in FileIds}

AnswerOutcomes == {"ok", "send_failed"}

\* process_phone_contact from its filter to the await of message.answer.
\* The task keeps the locals of the handler: the session data it read and,
\* under registration_id and charge_id, the id and charge_id of user.
process_phone_contact_until_answer(a, m) ==
    /\ state[a] = "Phone" /\ F_contact(m)
    /\ RowFields \subseteq DOMAIN data[a]
    /\ Len(users) < MaxRows
    /\ BagCardinality(tasks) < MaxTasks
    /\ LET d == data[a]
           made == create_user(users, a, d["parent_name"], d["email"], m.text, d["surname"],
                               d["name"], d["grade"], d["school"], Lang(d), FALSE, None, "ok")
           user == made.user[1]
           row == [registration_id |-> user.id, charge_id |-> user.charge_id[1]]
       IN  /\ users' = made.users
           /\ created' = [created EXCEPT ![a] = @ \cup {user.id}]
           /\ data' = [data EXCEPT ![a] =
                  update_data(update_data(@, [phone |-> m.text]), row)]
           /\ tasks' = tasks (+) SetToBag({Task(a, "process_phone_contact", m,
                                                update_data(d, row))})
    /\ out' = <<>>
    /\ last' = [account |-> a, handler |-> "process_phone_contact", branch |-> "awaiting"]
    /\ strace' = <<state[a]>>
    /\ UNCHANGED <<state, visited, link>>

\* process_phone_contact from the return of message.answer to its end
process_phone_contact_after_answer(t, outcome) ==
    /\ BagIn(t, tasks) /\ t.handler = "process_phone_contact"
    /\ tasks' = tasks (-) SetToBag({t})
    /\ LET a == t.account
           lang == Lang(t.data)
           payme_url == generate_payme_link(PAYME_MERCHANT_ID, OLYMPIAD_PRICE,
                                            t.data["charge_id"])
       IN  IF outcome = "send_failed"
           THEN /\ Observed(a, "process_phone_contact", "send_failed", ErrorReply(lang), <<>>)
                /\ UNCHANGED <<state, visited, link>>
           ELSE /\ state' = [state EXCEPT ![a] = "Payment"]
                /\ visited' = [visited EXCEPT ![a] = Append(@, "Payment")]
                /\ link' = [link EXCEPT ![a] = Some(payme_url)]
                /\ Observed(a, "process_phone_contact", "ok",
                           << [Msg("payment_info", lang) EXCEPT !.url = Some(payme_url)] >>,
                           <<"Payment">>)
    /\ UNCHANGED <<data, users, created>>

NextAnswer ==
    \E a \in Accounts :
        \/ HandleEvent(a, AnswerMessages, {"en"}, {"ok", "insert_failed"}, {"ok"})
        \/ \E m \in AnswerMessages : process_phone_contact_until_answer(a, m)
        \/ \E t \in Suspended(a), outcome \in AnswerOutcomes :
               process_phone_contact_after_answer(t, outcome)

SpecAnswer == Init /\ [][NextAnswer]_vars

\* ------------------------------------------------------------------------
\* The flow of a user who answers every prompt with an input the step
\* accepts, while the store and the transport work: /start in a fresh
\* session, the language button, the six texts, the contact, the
\* I-have-paid button, the photograph.  The user keeps answering (weak
\* fairness of the user's next event).
\* ------------------------------------------------------------------------
\* "Li", "Lee", "O'Neil", "a@b.uz", "1", "8"
ValidTexts ==
    { <<76, 105>>, <<76, 101, 101>>, <<79, 39, 78, 101, 105, 108>>,
      <<97, 64, 98, 46, 117, 122>>, <<49>>, <<56>> }

ValidMessages ==
    {TextMessage(t) : t \in ValidTexts} \cup {ContactMessage(p) : p \in Phones}
    \cup {PhotoMessage(f) : f \in FileIds}

\* the session has not been used yet
Fresh(a) == state[a] = NoState /\ visited[a] = <<>>

\* the handler took the input and went on
Accepted == last'.branch = "ok"

\* the contact share of the user
ContactShared(a) == \E m \in ValidMessages : process_phone_contact(a, m, "ok")

\* the other events of the user
OtherValidEvent(a) ==
    \/ Fresh(a) /\ cmd_start(a)
    \/ process_language_selection(a, "en")
    \/ \E m \in ValidMessages : process_parent_name(a, m) /\ Accepted
    \/ \E m \in ValidMessages : process_email(a, m) /\ Accepted
    \/ \E m \in ValidMessages : process_surname(a, m) /\ Accepted
    \/ \E m \in ValidMessages : process_name(a, m) /\ Accepted
    \/ \E m \in ValidMessages : process_grade(a, m) /\ Accepted
    \/ \E m \in ValidMessages : process_school(a, m) /\ Accepted
    \/ process_payment_done(a)
    \/ \E m \in ValidMessages : process_screenshot(a, m, "ok")

ValidEvent(a) == OtherValidEvent(a) \/ ContactShared(a)

NextValid == \E a \in Accounts : ValidEvent(a)

\* the contact share is enabled exactly when the session is in Phone and
\* the table has room
AwaitsContact == \E a \in Accounts : state[a] = "Phone" /\ Len(users) < MaxRows

\* Weak fairness of the user's events.  For the contact share it is written
\* out with the enabling condition above in the place of ENABLED.
SpecValid ==
    /\ Init /\ [][NextValid]_vars
    /\ WF_vars(\E a \in Accounts : OtherValidEvent(a))
    /\ ([]<>(~AwaitsContact) \/ []<><<\E a \in Accounts : ContactShared(a)>>_vars)

\* ------------------------------------------------------------------------
\* The name steps by themselves: a session that stands in ParentName, with
\* its language chosen, answers the prompts of ParentName, Email, Surname
\* and Name with names of several scripts and with texts that are no names.
\* ------------------------------------------------------------------------
\* "Li", " Li ", "L", "O'Neil", "Li-Li", "L1", "Li!", " ", "a@b.uz",
\* "Ivanov" in Cyrillic, "Otkir" in Uzbek Cyrillic (U+040E first), and
\* U+00B2 U+00B2 (two superscript twos)
NameTexts ==
    { <<76, 105>>, <<32, 76, 105, 32>>, <<76>>, <<79, 39, 78, 101, 105, 108>>,
      <<76, 105, 45, 76, 105>>, <<76, 49>>, <<76, 105, 33>>, <<32>>,
      <<97, 64, 98, 46, 117, 122>>, <<1048, 1074, 1072, 1085, 1086, 1074>>,
      <<1038, 1090, 1082, 1080, 1088>>, <<178, 178>> }

NameMessages == {TextMessage(t) : t \in NameTexts}

InitName ==
    /\ state = [a \in Accounts |-> "ParentName"]
    /\ data = [a \in Accounts |-> update_data(EmptyData, [language |-> "en"])]
    /\ users = <<>>
    /\ out = <<>>
    /\ last = [account |-> 0, handler |-> "none", branch |-> "none"]
    /\ strace = <<>>
    /\ visited = [a \in Accounts |-> SubSeq(RegState, 1, 2)]
    /\ link = [a \in Accounts |-> None]
    /\ created = [a \in Accounts |-> {}]
    /\ tasks = EmptyBag

NextName ==
    \E a \in Accounts :
        \/ \E m \in NameMessages : process_parent_name(a, m)
        \/ \E m \in NameMessages : process_email(a, m)
        \/ \E m \in NameMessages : process_surname(a, m)
        \/ \E m \in NameMessages : process_name(a, m)

SpecName == InitName /\ [][NextName]_vars

\* ------------------------------------------------------------------------
\* The whole flow of one account with the two handlers that call the store
\* suspended at that call (process_phone_contact at create_user,
\* process_screenshot at update_registration_payment), while the commands
\* and the other events of the account are handled.
\* ------------------------------------------------------------------------
\* "Li", "a@b.uz", "8"
FlowTexts == AnswerTexts \ {REGISTER_ANOTHER_TEXT_EN}

FlowMessages == {TextMessage(t) : t \in FlowTexts}

NextSuspended ==
    \E a \in Accounts :
        \/ cmd_start(a)
        \/ process_language_selection(a, "en")
        \/ \E m \in FlowMessages : process_parent_name(a, m)
        \/ \E m \in FlowMessages : process_email(a, m)
        \/ \E m \in FlowMessages : process_surname(a, m)
        \/ \E m \in FlowMessages : process_name(a, m)
        \/ \E m \in FlowMessages : process_grade(a, m)
        \/ \E m \in FlowMessages : process_school(a, m)
        \/ process_payment_done(a)
        \/ Suspending(a)

SpecSuspended == Init /\ [][NextSuspended]_vars
\* ------------------------------------------------------------------------
\* Vocabulary of the properties
\* ------------------------------------------------------------------------
\* the router: message m of account a is handled, by whichever handler takes it
Deliver(a, m) ==
    \/ process_parent_name(a, m)
    \/ process_email(a, m)
    \/ process_surname(a, m)
    \/ process_name(a, m)
    \/ process_grade(a, m)
    \/ process_school(a, m)
    \/ \E outcome \in PhoneOutcomes : process_phone_contact(a, m, outcome)
    \/ process_phone_text(a, m)
    \/ \E outcome \in ScreenshotOutcomes : process_payment_photo_direct(a, m, outcome)
    \/ \E outcome \in ScreenshotOutcomes : process_screenshot(a, m, outcome)
    \/ process_invalid_screenshot(a, m)
    \/ process_register_another(a, m)
    \/ handle_unknown(a, m)

\* the validation rule of a text-collecting state, applied to a raw input
PassesRule(s, text) ==
    LET t == strip(text)
    IN  CASE s \in {"ParentName", "Surname", "Name"} -> validate_name(t) /\ Len(t) >= 2
          [] s = "Email" -> validate_email(t)
          [] s = "Grade" -> validate_grade(t)[1]
          [] s = "School" -> Len(t) >= 2

\* get_text keys of the error prompt and of the prompt of each state
ErrorKey(s) ==
    CASE s = "ParentName" -> "invalid_parent_name"
      [] s = "Email" -> "invalid_email"
      [] s = "Surname" -> "invalid_surname"
      [] s = "Name" -> "invalid_name"
      [] s = "Grade" -> "invalid_grade"
      [] s = "School" -> "invalid_school"

PromptKey(s) ==
    CASE s = "ParentName" -> "ask_parent_name"
      [] s = "Email" -> "ask_email"
      [] s = "Surname" -> "ask_surname"
      [] s = "Name" -> "ask_name"
      [] s = "Grade" -> "ask_grade"
      [] s = "School" -> "ask_school"
      [] s = "Phone" -> "ask_phone"
      [] s = "Payment" -> "payment_info"
      [] OTHER -> "none"

\* the state after s in the order of RegState; after the last one the
\* session is complete and has no state
Successor(s) ==
    IF \E i \in 1..(Len(RegState) - 1) : RegState[i] = s
    THEN RegState[(CHOOSE i \in 1..(Len(RegState) - 1) : RegState[i] = s) + 1]
    ELSE NoState

Ran(handler, branch) == last.handler = handler /\ last.branch = branch

\* a text that fails the rule of account a's text-collecting state is handled
InvalidTextHandled(a, m) ==
    /\ state[a] \in TextStates /\ F_text(m)
    /\ ~is_cancel_text(strip(m.text)) /\ ~PassesRule(state[a], m.text)
    /\ Deliver(a, m)

\* a text that passes the rule of account a's text-collecting state is handled
ValidTextHandled(a, m) ==
    /\ state[a] \in TextStates /\ F_text(m)
    /\ ~is_cancel_text(strip(m.text)) /\ PassesRule(state[a], m.text)
    /\ Deliver(a, m)

\* a contact share of account a is handled and nothing fails
ContactShareSucceeds(a, m) == process_phone_contact(a, m, "ok") /\ last'.branch = "ok"

AddedFields(a) == (DOMAIN data'[a]) \ (DOMAIN data[a])

\* ------------------------------------------------------------------------
\* C1: in ParentName, Email, Surname, Name, Grade and School an input that
\* fails the state's validation rule leaves the FSM state, the session data
\* and the table as they were; all that happens is that the state's error
\* prompt is sent.
\* ------------------------------------------------------------------------
C1_InvalidInputKeepsStateAndData ==
    [][\A a \in Accounts, m \in Messages :
           InvalidTextHandled(a, m) =>
               /\ state' = state /\ data' = data /\ users' = users
               /\ out' = <<Msg(ErrorKey(state[a]), Lang(data[a]))>>]_vars

C1_Witness ==
    /\ Ran("process_grade", "invalid") /\ out = <<Msg("invalid_grade", "en")>>
    /\ state[last.account] = "Grade" /\ "grade" \notin DOMAIN data[last.account]

\* ------------------------------------------------------------------------
\* C2 as stated: in every state from LanguageSelect to Phone a valid input
\* adds exactly one field, sends exactly one message, the prompt of the next
\* state, and moves the session to the next state.
\* ------------------------------------------------------------------------
AdvancesWithOneFieldAndOnePrompt(a) ==
    /\ Cardinality(AddedFields(a)) = 1
    /\ state'[a] = Successor(state[a])
    /\ Len(out') = 1 /\ out'[1].key = PromptKey(state'[a])

C2_OneFieldOnePromptInEveryState ==
    [][\A a \in Accounts :
           /\ \A code \in LangCodes :
                  process_language_selection(a, code) => AdvancesWithOneFieldAndOnePrompt(a)
           /\ \A m \in Messages :
                  (ValidTextHandled(a, m) \/ ContactShareSucceeds(a, m))
                      => AdvancesWithOneFieldAndOnePrompt(a)]_vars

\* C2 as amended: a valid input moves the session to the next state in every
\* state from LanguageSelect to Phone; in ParentName .. School it adds exactly
\* one field and sends exactly one message, the next state's prompt; in
\* LanguageSelect it adds exactly the language and sends three messages (the
\* edited confirmation, the welcome, the ParentName prompt); in Phone it
\* leaves phone, registration_id and charge_id in the session (three new
\* fields on the first share) and sends one message, the payment message.
C2_ValidInputAdvances ==
    [][\A a \in Accounts :
           /\ \A code \in LangCodes :
                  process_language_selection(a, code) =>
                      /\ AddedFields(a) = {"language"}
                      /\ state'[a] = Successor(state[a])
                      /\ Len(out') = 3
                      /\ out'[1].key = "language_selected" /\ out'[1].via = "edit_text"
                      /\ out'[2].key = "welcome"
                      /\ out'[3].key = PromptKey(state'[a])
           /\ \A m \in Messages :
                  ValidTextHandled(a, m) => AdvancesWithOneFieldAndOnePrompt(a)
           /\ \A m \in Messages :
                  ContactShareSucceeds(a, m) =>
                      /\ AddedFields(a) \subseteq {"phone", "registration_id", "charge_id"}
                      /\ {"phone", "registration_id", "charge_id"} \subseteq DOMAIN data'[a]
                      /\ ("phone" \notin DOMAIN data[a] => Cardinality(AddedFields(a)) = 3)
                      /\ state'[a] = Successor(state[a])
                      /\ Len(out') = 1 /\ out'[1].key = PromptKey(state'[a])]_vars

C2_Witness == Ran("process_phone_contact", "ok") /\ Len(users) = 2

\* ------------------------------------------------------------------------
\* C3: the cancel button text (ru, uz or en) sent as a text message in any
\* state of the flow ends the session: no FSM state, no session data.
\* ------------------------------------------------------------------------
C3_CancelPhraseCancelsEverywhere ==
    [][\A a \in Accounts, t \in {CANCEL_TEXT_RU, CANCEL_TEXT_UZ, CANCEL_TEXT_EN} :
           (state[a] \in RegStates /\ Deliver(a, TextMessage(t)))
               => state'[a] = NoState /\ data'[a] = EmptyData]_vars

\* ------------------------------------------------------------------------
\* C4: the FSM state only changes to the immediate successor in the order
\* LanguageSelect, ParentName, Email, Surname, Name, Grade, School, Phone,
\* Payment, ScreenshotProof, Complete, or to Cancelled, or back to the start
\* of the flow (LanguageSelect on /start, ParentName on register-another,
\* which restarts the flow with the language already chosen); so a completed
\* attempt has passed through ParentName, Email, Surname, Name, Grade,
\* School, Phone, Payment and ScreenshotProof in that order since it began.
\* ------------------------------------------------------------------------
Changes == {<<strace[i], strace[i + 1]>> : i \in 1..(Len(strace) - 1)}

Completed(a) == visited[a] # <<>> /\ visited[a][Len(visited[a])] = "Complete"

C5_ContactShareCreatesTheRow ==
    [][\A a \in Accounts, m \in Messages :
           ContactShareSucceeds(a, m) =>
               LET d == data[a]
                   id == Len(users) + 1
                   charge_id == generate_charge_id(id, d["surname"], d["name"], d["grade"])
               IN  /\ Len(users') = id
                   /\ SubSeq(users', 1, Len(users)) = users
                   /\ users'[id] =
                          [id |-> id, telegram_id |-> a, parent_name |-> d["parent_name"],
                           email |-> d["email"], phone |-> m.text, surname |-> d["surname"],
                           name |-> d["name"], grade |-> d["grade"], school |-> d["school"],
                           charge_id |-> Some(charge_id), language |-> d["language"],
                           payment_status |-> FALSE, screenshot_file_id |-> None]
                   /\ data'[a]["registration_id"] = id
                   /\ data'[a]["charge_id"] = charge_id
                   /\ Len(out') = 1
                   /\ out'[1].url =
                          Some(generate_payme_link(PAYME_MERCHANT_ID, OLYMPIAD_PRICE, charge_id))
                   /\ state'[a] = "Payment"]_vars

C5_Witness ==
    /\ Ran("process_phone_contact", "ok") /\ Len(users) = 2
    /\ users[2].charge_id # None /\ users[1].charge_id = None

ChargeIdsUnique(table) ==
    \A i, j \in 1..Len(table) :
        (i # j /\ table[i].charge_id # None) => table[i].charge_id # table[j].charge_id

C7_ChargeIdUniqueAndStable ==
    [][/\ ChargeIdsUnique(users')
       /\ \A i \in 1..Len(users) :
              users[i].charge_id # None =>
                  i <= Len(users') /\ users'[i].charge_id = users[i].charge_id]_vars

C7_Witness ==
    /\ Len(users) = 2 /\ users[1].charge_id # None /\ users[2].charge_id # None
    /\ users[1].surname = users[2].surname /\ users[1].name = users[2].name
    /\ users[1].grade = users[2].grade /\ users[1].payment_status

\* ------------------------------------------------------------------------
\* C8: payment_status of a row, once true, is never set back to false,
\* whatever events follow (/start, /cancel, register-another, more photos);
\* so it changes from false to true at most once.
\* ------------------------------------------------------------------------
C8_PaidStaysPaid ==
    [][\A i \in 1..Len(users) :
           users[i].payment_status => i <= Len(users') /\ users'[i].payment_status]_vars

C8_Witness ==
    /\ Ran("process_screenshot", "ok") /\ strace[1] = "ScreenshotProof"
    /\ \E i \in 1..Len(users) : users[i].payment_status /\ i \notin created[last.account]

\* ------------------------------------------------------------------------
\* C9: when a store operation fails while an event is handled, the user gets
\* the generic error message and the session is in the state it was in
\* before the event.
\* ------------------------------------------------------------------------
C9_StoreFailureKeepsState ==
    Ran(last.handler, "store_failed") =>
        /\ out = <<Msg("error_occurred", Lang(data[last.account]))>>
        /\ state[last.account] = strace[1]

\* ------------------------------------------------------------------------
\* C10: within one registration attempt of a session at most one row is
\* created, also when the Phone step failed after the insert was committed
\* and the contact is shared again.
\* ------------------------------------------------------------------------
C10_OneRowPerAttempt == \A a \in Accounts : Cardinality(created[a]) <= 1


\* ------------------------------------------------------------------------
\* C11: when process_phone_contact has finished, no row of the table is
\* without a charge_id: create_user never leaves a row behind whose
\* charge_id is null.
\* ------------------------------------------------------------------------
C11_NoRowWithoutChargeId ==
    last.handler = "process_phone_contact" =>
        \A i \in 1..Len(users) : users[i].charge_id # None

\* ------------------------------------------------------------------------
\* C12: the events of one session are handled one at a time: a handler of
\* an account is never started while another handler of the same account is
\* suspended, so of two contact shares sent in Phone only the first finds
\* the session in Phone (one row per attempt) and of two photographs only
\* the first finds it in ScreenshotProof (one completion per attempt).
\* ------------------------------------------------------------------------
\* how many handlers of account a are suspended
InFlight(a) == BagCardinality([t \in Suspended(a) |-> tasks[t]])

\* how often account a's session has come to Complete
Completions(a) == Cardinality({i \in 1..Len(visited[a]) : visited[a][i] = "Complete"})

C12_OneHandlerPerSessionAtATime ==
    \A a \in Pair :
        /\ InFlight(a) <= 1
        /\ Cardinality(created[a]) <= 1
        /\ Completions(a) <= 1

\* ------------------------------------------------------------------------
\* C13: sessions of different accounts are independent: whatever a handler
\* of account a does, and however the handlers of the two accounts
\* interleave, the FSM state and the session data of another account b and
\* every row that b's session created stay as they were.
\* ------------------------------------------------------------------------
RowsOf(b, table) == {i \in 1..Len(table) : table[i].telegram_id = b}

C13_AccountsAreIndependent ==
    [][\A a \in Pair : PairStep(a) =>
           \A b \in Pair \ {a} :
               /\ state'[b] = state[b]
               /\ data'[b] = data[b]
               /\ visited'[b] = visited[b]
               /\ Suspended(b)' = Suspended(b)
               /\ \A i \in RowsOf(b, users) : i <= Len(users') /\ users'[i] = users[i]
               /\ RowsOf(b, users') = RowsOf(b, users)]_vars

\* account a's photograph has just completed a's registration while a
\* handler of account b is suspended and b has a row of its own
C13_Witness ==
    \E a \in Pair : \E b \in Pair \ {a} :
        /\ last.account = a /\ Ran("process_screenshot", "ok")
        /\ Suspended(b) # {}
        /\ RowsOf(b, users) # {} /\ RowsOf(a, users) # {}

\* ------------------------------------------------------------------------
\* C14: an account may register more than once.  A contact share of an
\* account that already has a row is not rejected and not merged into the
\* earlier row: a new row is appended with the same telegram_id and with an
\* id and a charge_id no earlier row has, and the earlier rows stay as they
\* are.  The photograph that completes an attempt marks the row created in
\* that attempt, so two completed attempts end with two paid rows.
\* ------------------------------------------------------------------------
C14_EveryAttemptGetsItsOwnRow ==
    [][\A a \in Accounts :
           /\ \A m \in Messages :
                  (/\ RowsOf(a, users) # {}
                   /\ last'.handler = "process_phone_contact"
                   /\ process_phone_contact(a, m, "ok")) =>
                      /\ last'.branch = "ok"
                      /\ Len(users') = Len(users) + 1
                      /\ users'[Len(users')].telegram_id = a
                      /\ \A i \in 1..Len(users) :
                             /\ users'[i] = users[i]
                             /\ users'[Len(users')].id # users[i].id
                             /\ users'[Len(users')].charge_id # users[i].charge_id
           /\ (~Completed(a) /\ Completed(a)') =>
                  \E i \in created[a] :
                      /\ users[i].telegram_id = a
                      /\ users'[i].payment_status
                      /\ \A j \in 1..Len(users) : j # i => users'[j] = users[j]]_vars

\* one account has completed the flow twice and has two paid rows with
\* different ids and charge_ids
C14_Witness ==
    /\ Len(users) = 2 /\ Completed(last.account)
    /\ \A i \in 1..2 : users[i].telegram_id = last.account /\ users[i].payment_status
    /\ users[1].id # users[2].id
    /\ users[1].charge_id # None /\ users[2].charge_id # None
    /\ users[1].charge_id # users[2].charge_id

\* ------------------------------------------------------------------------
\* C15: update_registration_payment is idempotent: marking a row paid that
\* is paid already succeeds (it returns the row, it does not raise), the
\* row stays paid, nothing but its screenshot_file_id can change and no
\* other row changes; with the same photograph, or with none, the table is
\* exactly as before.
\* ------------------------------------------------------------------------
C15_MarkingPaidAgainSucceeds ==
    [][\A id \in StoreIds : \A f \in StoreFiles :
           (/\ last'.handler = "update_registration_payment"
            /\ id \in 1..Len(users) /\ users[id].payment_status
            /\ call_update_registration_payment(id, TRUE, f, "ok")) =>
               /\ last'.branch = "paid_row"
               /\ Len(users') = Len(users)
               /\ users'[id].payment_status
               /\ users'[id] = [users[id] EXCEPT !.screenshot_file_id = users'[id].screenshot_file_id]
               /\ \A j \in 1..Len(users) : j # id => users'[j] = users[j]
               /\ (f \in {None, Some(<<>>), users[id].screenshot_file_id}) => users' = users]_vars

\* a paid row with a photograph has been marked paid once more
C15_Witness ==
    /\ Ran("update_registration_payment", "paid_row")
    /\ \E i \in 1..Len(users) : users[i].payment_status /\ users[i].screenshot_file_id # None

\* ------------------------------------------------------------------------
\* C16: update_registration_payment for an id that no row has reports that
\* there is no such row (it returns None) and changes no row.
\* ------------------------------------------------------------------------
C16_MissingRowIsReportedAndNothingChanges ==
    [][\A id \in StoreIds : \A payment_status \in BOOLEAN : \A f \in StoreFiles :
           (/\ last'.handler = "update_registration_payment"
            /\ id \notin 1..Len(users)
            /\ call_update_registration_payment(id, payment_status, f, "ok")) =>
               /\ last'.branch = "none"
               /\ users' = users]_vars

\* the call has found no row in a table that holds an unpaid row
C16_Witness ==
    /\ Ran("update_registration_payment", "none")
    /\ \E i \in 1..Len(users) : ~users[i].payment_status

\* ------------------------------------------------------------------------
\* C17: the register-another button pressed after a completed registration
\* starts the next attempt at ParentName without passing LanguageSelect,
\* and the session then holds the language of the registration just
\* completed and nothing else.
\* ------------------------------------------------------------------------
C17_RegisterAnotherKeepsOnlyTheLanguage ==
    [][\A a \in Accounts : \A m \in RuMessages :
           (/\ last'.handler = "process_register_another"
            /\ Completed(a)
            /\ process_register_another(a, m)) =>
               /\ state'[a] = "ParentName"
               /\ \A i \in 1..Len(strace') : strace'[i] # "LanguageSelect"
               /\ visited'[a] = <<"ParentName">>
               /\ \E i \in created[a] :
                      /\ users[i].payment_status
                      /\ data'[a] = [language |-> users[i].language]
               /\ users' = users]_vars

\* the button has restarted a session whose registration in Russian is
\* complete
C17_Witness ==
    /\ Ran("process_register_another", "ok")
    /\ state[last.account] = "ParentName"
    /\ data[last.account] = [language |-> "ru"]
    /\ \E i \in 1..Len(users) :
           /\ users[i].telegram_id = last.account
           /\ users[i].payment_status /\ users[i].language = "ru"

\* ------------------------------------------------------------------------
\* C18: a session that has come to Complete or to Cancelled holds none of
\* the fields an attempt accumulates, and the next attempt (LanguageSelect
\* after /start, ParentName after the register-another button) starts
\* without any of them.
\* ------------------------------------------------------------------------
RegistrationFields ==
    {"parent_name", "email", "surname", "name", "grade", "school", "phone", "registration_id",
     "charge_id"}

Cancelled(a) == visited[a] # <<>> /\ visited[a][Len(visited[a])] = "Cancelled"

PhotoTaken(a, file_id, outcome) ==
    LET id == data[a]["registration_id"]
        marked == [users EXCEPT ![id] = [@ EXCEPT !.payment_status = TRUE,
                                                  !.screenshot_file_id = Some(file_id)]]
    IN  /\ last'.branch = outcome
        /\ users' = IF outcome = "store_failed" THEN users ELSE marked
        /\ IF outcome = "ok"
           THEN /\ state'[a] = NoState
                /\ data'[a] = [language |-> Lang(data[a])]
                /\ Completed(a)'
           ELSE /\ state'[a] = "ScreenshotProof"
                /\ data'[a] = data[a]
                /\ ~Completed(a)'

C19_PhotoInPaymentIsButtonThenPhoto ==
    [][\A a \in Accounts :
           /\ process_payment_done(a) =>
                  state'[a] = "ScreenshotProof" /\ data' = data /\ users' = users
           /\ \A m \in Messages : \A outcome \in ScreenshotOutcomes :
                  /\ (/\ last'.handler = "process_payment_photo_direct"
                      /\ process_payment_photo_direct(a, m, outcome)) =>
                         PhotoTaken(a, m.text, outcome)
                  /\ (/\ last'.handler = "process_screenshot"
                      /\ process_screenshot(a, m, outcome)) =>
                         PhotoTaken(a, m.text, outcome)]_vars

\* a photograph sent in Payment has completed the registration
C19_Witness ==
    /\ Ran("process_payment_photo_direct", "ok")
    /\ strace = <<"Payment", "ScreenshotProof", NoState>>
    /\ Completed(last.account)
    /\ data[last.account] = [language |-> "en"]
    /\ \E i \in 1..Len(users) :
           /\ users[i].telegram_id = last.account
           /\ users[i].payment_status /\ users[i].screenshot_file_id = Some(<<102, 49>>)

\* ------------------------------------------------------------------------
\* C20: in Grade a text is accepted exactly when int() reads it as a number
\* g with MIN_GRADE <= g <= MAX_GRADE, and then g is what the session
\* stores.  The numerals of MIN_GRADE and MAX_GRADE are accepted, those of
\* MIN_GRADE - 1 and MAX_GRADE + 1 are refused, and a text that is no
\* number is refused; a refusal is the invalid_grade prompt with the state
\* and the data left as they were, never an unhandled error.
\* ------------------------------------------------------------------------
GradeAccepted(a, g) ==
    /\ last'.branch = "ok"
    /\ state'[a] = "School"
    /\ data'[a] = update_data(data[a], [grade |-> g])

GradeRefused(a) ==
    /\ last'.branch = "invalid"
    /\ out' = <<Msg("invalid_grade", Lang(data[a]))>>
    /\ state'[a] = "Grade"
    /\ data'[a] = data[a]

C20_GradeAcceptedExactlyInRange ==
    [][\A a \in Pair : \A m \in GradeMessages :
           (last'.account = a /\ process_grade(a, m)) =>
               LET g == ParseInt(strip(m.text))
               IN  /\ IF g # None /\ g[1] \in MIN_GRADE..MAX_GRADE
                      THEN GradeAccepted(a, g[1])
                      ELSE GradeRefused(a)
                   /\ m.text = IntToText(MIN_GRADE) => GradeAccepted(a, MIN_GRADE)
                   /\ m.text = IntToText(MAX_GRADE) => GradeAccepted(a, MAX_GRADE)
                   /\ m.text = IntToText(MIN_GRADE - 1) => GradeRefused(a)
                   /\ m.text = IntToText(MAX_GRADE + 1) => GradeRefused(a)
                   /\ m.text \in { <<76, 105>>, <<>>, <<49, 46, 53>>, <<49, 95>>, <<8312>> } =>
                          GradeRefused(a)]_vars

\* one session has been accepted with MIN_GRADE, the other with MAX_GRADE
C20_Witness ==
    /\ Ran("process_grade", "ok")
    /\ \E a \in Pair : \E b \in Pair \ {a} :
           /\ state[a] = "School" /\ data[a]["grade"] = MIN_GRADE
           /\ state[b] = "School" /\ data[b]["grade"] = MAX_GRADE

\* ------------------------------------------------------------------------
\* C21: every row of the table has a grade from MIN_GRADE to MAX_GRADE, the
\* grade of a new row is the grade the session collected, and no step
\* changes the grade of a row that exists.
\* ------------------------------------------------------------------------
C21_GradeInRangeAndNeverChanged ==
    [][/\ \A i \in 1..Len(users') :
              MIN_GRADE <= users'[i].grade /\ users'[i].grade <= MAX_GRADE
       /\ \A i \in 1..Len(users) : i <= Len(users') /\ users'[i].grade = users[i].grade
       /\ \A i \in (1..Len(users')) \ (1..Len(users)) :
              /\ "grade" \in DOMAIN data[last'.account]
              /\ users'[i].grade = data[last'.account]["grade"]]_vars

\* a row has been marked paid and still has the grade the text "8" gave
C21_Witness ==
    /\ Ran("process_screenshot", "ok")
    /\ \E i \in 1..Len(users) : users[i].payment_status /\ users[i].grade = MAX_GRADE

\* ------------------------------------------------------------------------
\* C22: generate_charge_id(id, surname, name, grade) is the id, the cleaned
\* surname, the cleaned name and the grade joined by "_", where cleaning
\* transliterates Cyrillic letters and then drops every character outside
\* A-Z, a-z and 0-9.  For 42, "Ivanov" and "Ivan" in Cyrillic and 5 it is
\* "42_Ivanov_Ivan_5", and a result holds letters, digits and exactly three
\* "_" only.
\* ------------------------------------------------------------------------
\* what cleaning makes of each sample name: "Ivanov", "Ivan", "Li", "",
\* "ONeil2", "Otkir" and ""
CleanName(text) ==
    CASE text = <<1048, 1074, 1072, 1085, 1086, 1074>> -> <<73, 118, 97, 110, 111, 118>>
      [] text = <<1048, 1074, 1072, 1085>> -> <<73, 118, 97, 110>>
      [] text = <<76, 105>> -> <<76, 105>>
      [] text = <<1098>> -> <<>>
      [] text = <<79, 39, 78, 101, 105, 108, 45, 50>> -> <<79, 78, 101, 105, 108, 50>>
      [] text = <<1038, 1090, 1082, 1080, 1088>> -> <<79, 116, 107, 105, 114>>
      [] text = <<233>> -> <<>>

\* "42_Ivanov_Ivan_5"
CHARGE_ID_OF_THE_EXAMPLE ==
    <<52, 50, 95, 73, 118, 97, 110, 111, 118, 95, 73, 118, 97, 110, 95, 53>>

\* the arguments of the example: 42, "Ivanov" and "Ivan" in Cyrillic, 5
ARGUMENTS_OF_THE_EXAMPLE ==
    <<42, <<1048, 1074, 1072, 1085, 1086, 1074>>, <<1048, 1074, 1072, 1085>>, 5>>

C22_ChargeIdFormat ==
    Ran("generate_charge_id", "returned") =>
        LET db_id == out[1][1]
            surname == out[1][2]
            name == out[1][3]
            grade == out[1][4]
            charge_id == out[2]
        IN  /\ charge_id = IntToText(db_id) \o <<95>> \o CleanName(surname) \o <<95>>
                           \o CleanName(name) \o <<95>> \o IntToText(grade)
            /\ AllIn(charge_id, LOWER \cup UPPER \cup DIGITS \cup {95})
            /\ Len(Keep(charge_id, {95})) = 3
            /\ out[1] = ARGUMENTS_OF_THE_EXAMPLE => charge_id = CHARGE_ID_OF_THE_EXAMPLE

\* the call of the example has returned "42_Ivanov_Ivan_5"
C22_Witness ==
    /\ Ran("generate_charge_id", "returned")
    /\ out = <<ARGUMENTS_OF_THE_EXAMPLE, CHARGE_ID_OF_THE_EXAMPLE>>

\* ------------------------------------------------------------------------
\* C23: the charge ids generated for two different row ids are different,
\* whatever the surnames, the names and the grades are, also when a name
\* cleans to the empty string: of any two calls of generate_charge_id with
\* different ids the results differ.
\* ------------------------------------------------------------------------
C23_DifferentRowsDifferentChargeIds ==
    [][(/\ last.handler = "generate_charge_id" /\ last'.handler = "generate_charge_id"
        /\ out[1][1] # out'[1][1]) =>
           out[2] # out'[2]]_vars

\* the call for row 2 with a surname and a name that clean to the empty
\* string has returned "2___8"
C23_Witness ==
    /\ Ran("generate_charge_id", "returned")
    /\ out = << <<2, <<1098>>, <<233>>, MAX_GRADE>>, <<50, 95, 95, 95, 56>> >>

\* ------------------------------------------------------------------------
\* C24: the link of generate_payme_link is the checkout origin followed by
\* the base64 form of the UTF-8 bytes of
\* "m={merchant_id};ac.charge_id={charge_id};a={amount};l=ru", and while a
\* session is in Payment the link it was given carries the merchant id, the
\* configured price and the charge_id of the row created in the step that
\* presented it.
\* ------------------------------------------------------------------------
\* the place of a character in the base64 alphabet, from 0
B64Index(c) == (CHOOSE i \in 1..64 : B64_ALPHABET[i] = c) - 1

RECURSIVE b64decode(_)
\* the bytes that a padded base64 text stands for
b64decode(text) ==
    IF Len(text) < 4 THEN <<>>
    ELSE LET i1 == B64Index(text[1])
             i2 == B64Index(text[2])
             i3 == IF text[3] = 61 THEN 0 ELSE B64Index(text[3])
             i4 == IF text[4] = 61 THEN 0 ELSE B64Index(text[4])
             b1 == i1 * 4 + (i2 \div 16)
             b2 == (i2 % 16) * 16 + (i3 \div 4)
             b3 == (i3 % 4) * 64 + i4
         IN  (IF text[3] = 61 THEN <<b1>> ELSE IF text[4] = 61 THEN <<b1, b2>> ELSE <<b1, b2, b3>>)
             \o b64decode(SubSeq(text, 5, Len(text)))

\* "m=M1;ac.charge_id=" and ";a=50000;l=ru"
PARAMS_HEAD ==
    <<109, 61, 77, 49, 59, 97, 99, 46, 99, 104, 97, 114, 103, 101, 95, 105, 100, 61>>
PARAMS_TAIL ==
    <<59, 97, 61, 53, 48, 48, 48, 48, 59, 108, 61, 114, 117>>

\* the link for the charge id "1_Li_Li_8", as base64.b64encode gives it
LINK_OF_THE_FIRST_ROW ==
    <<104, 116, 116, 112, 115, 58, 47, 47, 99, 104, 101, 99, 107, 111, 117, 116, 46, 112, 97,
    121, 99, 111, 109, 46, 117, 122, 47, 98, 84, 49, 78, 77, 84, 116, 104, 89, 121, 53, 106, 97,
    71, 70, 121, 90, 50, 86, 102, 97, 87, 81, 57, 77, 86, 57, 77, 97, 86, 57, 77, 97, 86, 56, 52,
    79, 50, 69, 57, 78, 84, 65, 119, 77, 68, 65, 55, 98, 68, 49, 121, 100, 81, 61, 61>>

\* the row that the session of account a is paying for
PendingRow(a) == users[data[a]["registration_id"]]

C24_LinkCarriesPriceAndChargeId ==
    \A a \in Accounts :
        state[a] = "Payment" =>
            /\ link[a] # None
            /\ Len(link[a][1]) > Len(CHECKOUT_ORIGIN)
            /\ SubSeq(link[a][1], 1, Len(CHECKOUT_ORIGIN)) = CHECKOUT_ORIGIN
            /\ PendingRow(a).charge_id # None
            /\ b64decode(SubSeq(link[a][1], Len(CHECKOUT_ORIGIN) + 1, Len(link[a][1])))
                   = PARAMS_HEAD \o PendingRow(a).charge_id[1] \o PARAMS_TAIL
            /\ PendingRow(a).charge_id[1] = <<49, 95, 76, 105, 95, 76, 105, 95, 56>> =>
                   link[a][1] = LINK_OF_THE_FIRST_ROW
            /\ Ran("process_phone_contact", "ok") =>
                   /\ out = << [Msg("payment_info", Lang(data[a])) EXCEPT !.url = link[a]] >>
                   /\ PendingRow(a).id = Len(users)
                   /\ PendingRow(a).id \in created[a]

\* the contact share has presented the link of the first row
C24_Witness ==
    /\ Ran("process_phone_contact", "ok")
    /\ state[last.account] = "Payment"
    /\ link[last.account] = Some(LINK_OF_THE_FIRST_ROW)
    /\ users[1].charge_id = Some(<<49, 95, 76, 105, 95, 76, 105, 95, 56>>)

\* ------------------------------------------------------------------------
\* C25: in Phone a text message that is not the cancel phrase is not taken
\* as a phone number: the session stays in Phone with its data as it was,
\* no row is created, and the answer is the invalid_phone prompt, which
\* asks for the share button.
\* ------------------------------------------------------------------------
C25_TypedPhoneIsRefused ==
    [][\A a \in Accounts : \A m \in Messages :
           (/\ state[a] = "Phone" /\ F_text(m) /\ ~is_cancel_text(strip(m.text))
            /\ last'.account = a
            /\ Deliver(a, m)) =>
               /\ last'.handler = "process_phone_text"
               /\ state'[a] = "Phone"
               /\ data'[a] = data[a]
               /\ users' = users
               /\ out' = <<Msg("invalid_phone", Lang(data[a]))>>]_vars

\* the text "8" has been refused in Phone
C25_Witness ==
    /\ Ran("process_phone_text", "invalid")
    /\ state[last.account] = "Phone"
    /\ "phone" \notin DOMAIN data[last.account]
    /\ out = <<Msg("invalid_phone", "en")>>

WrongKind(a, m) ==
    \/ state[a] \in TextStates /\ ~F_text(m)
    \/ state[a] = "Phone" /\ ~F_contact(m) /\ ~F_text(m)
    \/ state[a] \in {"Payment", "ScreenshotProof"} /\ ~F_photo(m)

C27_WrongKindGetsARetryPrompt ==
    [][\A a \in Accounts : \A m \in Messages :
           (WrongKind(a, m) /\ last'.account = a /\ Deliver(a, m)) =>
               /\ state'[a] = state[a]
               /\ data'[a] = data[a]
               /\ users' = users
               /\ Len(out') = 1]_vars

\* ------------------------------------------------------------------------
\* C28: an event that ends in an error (an input that fails validation, a
\* failure of the store or of the transport inside a handler) leaves the
\* user with exactly one message, in the language of the session or in
\* the fallback language when none is selected; never with a completion
\* summary and an error message together.
\* ------------------------------------------------------------------------
ErrorBranches == {"invalid", "failed", "store_failed", "send_failed", "prompt_failed"}

C28_OneMessagePerError ==
    last.branch \in ErrorBranches =>
        /\ Len(out) = 1
        /\ \A i \in 1..Len(out) :
               /\ out[i].lang = Lang(data[last.account])
               /\ out[i].key # "registration_complete"

\* ------------------------------------------------------------------------
\* C29: the writes of a row come in the order create, charge_id, mark paid:
\* no row is paid while its charge_id is null, and a row is marked paid
\* only in a step after the one that created it, with its charge_id set.
\* ------------------------------------------------------------------------
C29_PaidOnlyAfterCreateAndChargeId ==
    [][/\ \A i \in 1..Len(users') :
              users'[i].payment_status =>
                  /\ users'[i].charge_id # None
                  /\ i <= Len(users)
                  /\ users[i].charge_id # None]_vars

\* ------------------------------------------------------------------------
\* C30: every row is created with payment_status false and no
\* screenshot_file_id; no step inserts a row that is already paid.
\* ------------------------------------------------------------------------
C30_RowsAreCreatedUnpaid ==
    [][\A i \in (Len(users) + 1)..Len(users') :
           /\ ~users'[i].payment_status
           /\ users'[i].screenshot_file_id = None]_vars

\* ------------------------------------------------------------------------
\* C31: a user who starts in a fresh session and sends an input that is
\* accepted at every step, with the store available, eventually reaches
\* Complete; exactly one row has then been created, it is marked paid, and
\* the completion summary shows the charge id of that row, which is
\* "{id}_{Surname}_{Name}_{grade}".
\* ------------------------------------------------------------------------
CompletedWithOneRow(a) ==
    /\ state[a] = NoState /\ Completed(a)
    /\ Len(users) = 1
    /\ created[a] = {1}
    /\ users[1].telegram_id = a
    /\ users[1].payment_status
    /\ users[1].charge_id =
           Some(generate_charge_id(1, users[1].surname, users[1].name, users[1].grade))
    /\ Len(out) = 2
    /\ out[1].key = "registration_complete"
    /\ out[1].charge_id = Some(escape_html(users[1].charge_id[1]))

C31_ValidInputsReachComplete == <>(\A a \in Accounts : CompletedWithOneRow(a))

C31_Witness ==
    /\ last.handler = "process_screenshot" /\ last.branch = "ok"
    /\ \A a \in Accounts : Completed(a) /\ Len(users) = 1 /\ users[1].payment_status
    /\ users[1].surname = <<79, 39, 78, 101, 105, 108>>
    /\ out[1].charge_id = Some(<<49, 95, 79, 78, 101, 105, 108, 95, 76, 105, 95, 56>>)

\* ------------------------------------------------------------------------
\* C32: in ParentName, Surname and Name an input is accepted exactly when,
\* trimmed, it has at least two characters and holds only Latin letters,
\* Cyrillic letters (the Uzbek ones included), spaces, hyphens and
\* apostrophes; a name in Cyrillic letters is accepted, an input with a
\* digit or another symbol is refused.
\* ------------------------------------------------------------------------
CYRILLIC_LETTERS == (1040..1103) \cup {1025, 1105}
UZBEK_LETTERS == {1038, 1118, 1178, 1179, 1170, 1171, 1202, 1203}

WellFormedName(text) ==
    LET s == strip(text)
    IN  /\ Len(s) >= 2
        /\ AllIn(s, LOWER \cup UPPER \cup CYRILLIC_LETTERS \cup UZBEK_LETTERS \cup {32, 45, 39})

NameStep(a, m) ==
    \/ process_parent_name(a, m)
    \/ process_surname(a, m)
    \/ process_name(a, m)

C32_NamesAcceptedExactlyWhenWellFormed ==
    [][\A a \in Accounts : \A m \in NameMessages :
           (/\ state[a] \in {"ParentName", "Surname", "Name"}
            /\ last'.account = a
            /\ NameStep(a, m)) =>
               (last'.branch = "ok" <=> WellFormedName(m.text))]_vars

\* ------------------------------------------------------------------------
\* C33: the /cancel command, in whatever state the session is, leaves the
\* session without state and without data, sends exactly one message, the
\* cancellation notice in the language the session had, and changes no row.
\* ------------------------------------------------------------------------
C33_CancelClearsSessionKeepsRows ==
    [][\A a \in Accounts :
           (last'.handler = "cmd_cancel" /\ last'.account = a /\ cmd_cancel(a)) =>
               /\ state'[a] = NoState
               /\ data'[a] = EmptyData
               /\ Len(out') = 1
               /\ out'[1].key = "cancelled" /\ out'[1].lang = Lang(data[a])
               /\ users' = users]_vars

\* /cancel has just been handled in ScreenshotProof, with the unpaid row of
\* the attempt in the table
C33_Witness ==
    /\ last.handler = "cmd_cancel"
    /\ strace = <<"ScreenshotProof", NoState>>
    /\ state[last.account] = NoState /\ data[last.account] = EmptyData
    /\ Len(users) = 1 /\ ~users[1].payment_status

\* ------------------------------------------------------------------------
\* C34: the /start command, in whatever state the session is, drops the
\* state and every field of the session (the language and a recorded
\* registration_id too) and puts the session in LanguageSelect; the table
\* keeps its rows as they are.
\* ------------------------------------------------------------------------
C34_StartDiscardsSessionKeepsRows ==
    [][\A a \in Accounts :
           (last'.handler = "cmd_start" /\ last'.account = a /\ cmd_start(a)) =>
               /\ state'[a] = "LanguageSelect"
               /\ data'[a] = EmptyData
               /\ users' = users]_vars

\* /start has just been handled in Payment: the session held a language and
\* the registration_id of the unpaid row, which stays in the table
C34_Witness ==
    /\ last.handler = "cmd_start"
    /\ strace[1] = "Payment"
    /\ state[last.account] = "LanguageSelect" /\ data[last.account] = EmptyData
    /\ Len(users) = 1 /\ ~users[1].payment_status /\ users[1].telegram_id = last.account

\* ------------------------------------------------------------------------
\* C35: the register-another text takes effect only in Complete, that is
\* when the session has no state after a finished registration; in a state
\* of the flow it does not restart the flow, and in Payment it leaves the
\* registration_id of the pending unpaid row in the session.
\* ------------------------------------------------------------------------
C35_RegisterAnotherOnlyAfterComplete ==
    [][\A a \in Accounts :
           (last'.handler = "process_register_another" /\ last'.account = a) =>
               /\ state[a] = NoState
               /\ "registration_id" \notin DOMAIN data[a]]_vars

\* ------------------------------------------------------------------------
\* C36: while a session is in Payment or ScreenshotProof its data holds a
\* registration_id and a charge_id, and they are the id and the charge_id
\* of a row of the table that belongs to the session's account and is not
\* paid.
\* ------------------------------------------------------------------------
HoldsPendingRow(a) ==
    /\ {"registration_id", "charge_id"} \subseteq DOMAIN data[a]
    /\ data[a]["registration_id"] \in 1..Len(users)
    /\ LET user == users[data[a]["registration_id"]]
       IN  /\ user.id = data[a]["registration_id"]
           /\ user.charge_id = Some(data[a]["charge_id"])
           /\ user.telegram_id = a
           /\ ~user.payment_status

C36_PaymentStatesHoldAnUnpaidRow ==
    \A a \in Accounts : state[a] \in {"Payment", "ScreenshotProof"} => HoldsPendingRow(a)

\* ------------------------------------------------------------------------
\* C37: a session that is in a state of the flow holds the fields of all
\* earlier steps (in Phone: parent_name, email, surname, name, grade and
\* school; in Payment and ScreenshotProof the phone too), so that neither
\* the row built by process_phone_contact nor the summary built by
\* process_screenshot fails on a missing field.
\* ------------------------------------------------------------------------
FieldsCollectedBefore(s) ==
    CASE s = "Email" -> {"parent_name"}
      [] s = "Surname" -> {"parent_name", "email"}
      [] s = "Name" -> {"parent_name", "email", "surname"}
      [] s = "Grade" -> {"parent_name", "email", "surname", "name"}
      [] s = "School" -> {"parent_name", "email", "surname", "name", "grade"}
      [] s = "Phone" -> RowFields
      [] s \in {"Payment", "ScreenshotProof"} -> SummaryFields
      [] OTHER -> {}

C37_EarlierFieldsAreHeld ==
    /\ \A a \in Accounts : FieldsCollectedBefore(state[a]) \subseteq DOMAIN data[a]
    /\ last.branch # "failed"

\* ------------------------------------------------------------------------
\* C38: a row is marked paid only by the session that created it: the row
\* that a step marks paid belongs to the account whose event is handled
\* and was created in the registration attempt that account is in, never
\* in an earlier attempt or by another account.
\* ------------------------------------------------------------------------
MarkedPaid(i) == i \in 1..Len(users) /\ ~users[i].payment_status /\ users'[i].payment_status

\* d is the data of a session that collected the fields of row i and holds
\* its id
AttemptOf(d, i) ==
    /\ RowFields \cup {"registration_id"} \subseteq DOMAIN d
    /\ d["registration_id"] = i
    /\ \A f \in RowFields : users[i][f] = d[f]

\* the data the handlers of account a work on: the session's and what the
\* suspended handlers of the account read when they started
WorkingData(a) == {data[a]} \cup {t.data : t \in Suspended(a)}

C38_PaidOnlyByTheAttemptThatCreated ==
    [][\A i \in 1..Len(users) :
           MarkedPaid(i) =>
               /\ users[i].telegram_id = last'.account
               /\ \E d \in WorkingData(last'.account) : AttemptOf(d, i)]_vars

\* ------------------------------------------------------------------------
\* C40: an unpaid row whose id no session holds any more (its session has
\* left Payment or ScreenshotProof through /cancel, /start or the
\* register-another text) stays in the table as it is: no later event
\* marks it paid, removes it or brings its id back into a session.
\* ------------------------------------------------------------------------
HeldBy(a, i) == "registration_id" \in DOMAIN data[a] /\ data[a]["registration_id"] = i

Abandoned(i) ==
    /\ i \in 1..Len(users)
    /\ ~users[i].payment_status
    /\ \A a \in DOMAIN data : ~HeldBy(a, i)

C40_AbandonedRowStaysUnpaid ==
    [][\A i \in 1..Len(users) :
           Abandoned(i) => (Abandoned(i))' /\ users'[i] = users[i]]_vars

\* ------------------------------------------------------------------------
\* C39.  In every reachable state of the store, a row is paid exactly when
\* it carries a screenshot file id: create_user in the contact handler
\* writes an unpaid row without a file id, and the photo handler writes the
\* status and the file id of the photo together (by update, or by the
\* fallback insert).
ScreenshotRecorded(i) == users[i].screenshot_file_id # None

C39_PaidExactlyWhenScreenshotRecorded ==
    \A i \in 1..Len(users) : users[i].payment_status <=> ScreenshotRecorded(i)

\* a table with a paid row carrying the photo's file id next to an unpaid
\* row without one, the photo handler having just acted
C39_Witness ==
    /\ last.handler = "process_screenshot"
    /\ \E i, j \in 1..Len(users) :
           /\ users[i].payment_status
           /\ users[i].screenshot_file_id \in {Some(f) : f \in FileIds}
           /\ ~users[j].payment_status
           /\ users[j].screenshot_file_id = None

====
